---- MODULE Spec2Model ----
(***************************************************************************)
(* A model of the trade-document pre-filing risk checker (app/).           *)
(*                                                                         *)
(* The program is a set of functions called per request.  The state of     *)
(* the model is the call in flight: the operation invoked (op), its        *)
(* inputs (args) and its result (ret).  Every action is one call of one    *)
(* function of the source, with its inputs drawn from a bounded set.       *)
(* The web service around them is modelled by the module global            *)
(* LAST_REPORT and by the clients, each with at most one request in        *)
(* flight; its actions are the steps of the request handlers.              *)
(*                                                                         *)
(* Representation of Python values                                         *)
(*   None            is << >>, a known value v is <<v>> (Some(v));          *)
(*   a str           is a sequence of one-character strings;               *)
(*   a dict          is a function from keys to optional values, a key     *)
(*                   that is missing is not in its DOMAIN;                 *)
(*   an int          is an integer;                                        *)
(*   a float         is an integer count of hundredths (1000.0 is 100000), *)
(*                   which is exact for the values the model draws.        *)
(***************************************************************************)
EXTENDS Integers, Sequences, FiniteSets, TLC

VARIABLES op, args, ret, OCR_AVAILABLE, LAST_REPORT, clients

vars == <<op, args, ret, OCR_AVAILABLE, LAST_REPORT, clients>>

(***************************************************************************)
(* Bounds of the model.                                                    *)
(***************************************************************************)
MaxIssues == 5
MaxItems == 2
MaxNativePages == 2
MaxOcrImages == 2

(***************************************************************************)
(* Python values.                                                          *)
(***************************************************************************)
None == << >>

Some(v) == <<v>>

\* {} : the empty dict
EmptyDict == << >>

\* d.get(k) on a dict d
Get(d, k) == IF k \in DOMAIN d THEN d[k] ELSE None

\* bool(x) of an optional str, list or dict: None and the empty value are falsy
Truthy(x) == x # None /\ DOMAIN x[1] # {}

\* (x or {}) of an optional dict
OrEmpty(x) == IF Truthy(x) THEN x[1] ELSE EmptyDict

\* (x or []) of an optional list
OrEmptyList(x) == IF Truthy(x) THEN x[1] ELSE << >>

Abs(n) == IF n < 0 THEN -n ELSE n

Max2(a, b) == IF a >= b THEN a ELSE b

Min2(a, b) == IF a <= b THEN a ELSE b

\* the float with the value of the integer n
F(n) == n * 100

\* SelectSeq with a membership test
Keep(s, S) == SelectSeq(s, LAMBDA c : c \in S)

Digits == {"0", "1", "2", "3", "4", "5", "6", "7", "8", "9"}

WhiteSpace == {" ", "\t", "\n", "NBSP"}

RECURSIVE LStrip(_)
LStrip(s) == IF s # << >> /\ Head(s) \in WhiteSpace THEN LStrip(Tail(s)) ELSE s

RECURSIVE RStrip(_)
RStrip(s) ==
    IF s # << >> /\ s[Len(s)] \in WhiteSpace THEN RStrip(SubSeq(s, 1, Len(s) - 1)) ELSE s

\* str.strip()
Strip(s) == RStrip(LStrip(s))

(***************************************************************************)
(* schemas.py: Issue                                                       *)
(***************************************************************************)
Severities == {"critical", "high", "medium", "low"}

Issue(sev, code, ev) == [severity |-> sev, code |-> code, evidence |-> ev]

(***************************************************************************)
(* scoring.py                                                              *)
(***************************************************************************)
POINTS == [critical |-> 30, high |-> 15, medium |-> 5, low |-> 1]

RECURSIVE SumPoints(_)
SumPoints(issues) ==
    IF issues = << >> THEN 0 ELSE POINTS[Head(issues).severity] + SumPoints(Tail(issues))

score_issues_unclamped(issues) == SumPoints(issues)

score_issues(issues) == Min2(100, SumPoints(issues))

risk_band_strict(score) ==
    IF score < 20 THEN "low" ELSE IF score < 50 THEN "medium" ELSE "high"

risk_band(score) ==
    IF score <= 20 THEN "low" ELSE IF score <= 50 THEN "medium" ELSE "high"

(***************************************************************************)
(* rules.py                                                                *)
(***************************************************************************)
\* float(x) of an int is the float of the same value; float(None) is not
\* attempted.  No well-typed value makes float() raise.
_safe_float(x) == IF x = None THEN None ELSE Some(F(x[1]))

\* _safe_float of a value that is a float already
_safe_float_of_float(x) == IF x = None THEN None ELSE Some(x[1])

\* _pct_diff(a, b) as the exact fraction num/den (in percent).  The
\* denominator max(|a|, |b|, 1e-9) is max(|a|, |b|) unless both are 0, as every
\* non-zero float of the model is at least 0.01; with both 0 the quotient is
\* 0 / 1e-9 = 0, written 0/1.
_pct_diff_min(a, b) ==
    LET m == Min2(Abs(a), Abs(b))
    IN  IF m = 0 THEN [num |-> 0, den |-> 1] ELSE [num |-> Abs(a - b) * 100, den |-> m]

_pct_diff(a, b) ==
    LET m == Max2(Abs(a), Abs(b))
    IN  IF m = 0 THEN [num |-> 0, den |-> 1] ELSE [num |-> Abs(a - b) * 100, den |-> m]

\* round(diff, 2), in hundredths of a percent (ties to even)
Round2(d) ==
    LET q == (d.num * 100) \div d.den
        r == (d.num * 100) % d.den
    IN  IF 2 * r > d.den \/ (2 * r = d.den /\ q % 2 = 1) THEN q + 1 ELSE q

\* diff > 2.0
ExceedsTolerance(d) == d.num > 2 * d.den

_hs_valid_no_strip(hs) ==
    /\ Truthy(hs)
    /\ LET h == SelectSeq(hs[1], LAMBDA c : c # ".")
       IN  /\ Len(h) >= 6
           /\ Len(h) <= 10
           /\ \A i \in 1..Len(h) : h[i] \in Digits

\* hs.strip().replace(".", "") fully matches \d{6,10}
_hs_valid(hs) ==
    /\ Truthy(hs)
    /\ LET stripped == Strip(hs[1])
           h == SelectSeq(stripped, LAMBDA c : c # ".")
       IN  /\ Len(h) >= 6
           /\ Len(h) <= 10
           /\ \A i \in 1..Len(h) : h[i] \in Digits

\* 0) Certificate of Origin missing / not referenced (critical)
CooRule(inv) ==
    LET ct == OrEmpty(Get(inv, "commercial_terms"))
        coo_country == Get(ct, "country_of_origin")
        coo_mention == Get(ct, "coo_mention")
    IN  IF ~Truthy(coo_country) /\ ~Truthy(coo_mention)
        THEN << Issue("critical", "COO_MISSING",
                      [invoice_country_of_origin |-> coo_country,
                       invoice_coo_mention |-> coo_mention]) >>
        ELSE << >>

\* the incoterm check as an elif of the COO check
IncotermRule_elif(inv) ==
    LET incoterm == Get(OrEmpty(Get(inv, "commercial_terms")), "incoterm")
    IN  IF CooRule(inv) = << >> /\ ~Truthy(incoterm)
        THEN << Issue("critical", "INCOTERM_MISSING", EmptyDict) >>
        ELSE << >>

\* 1) Incoterm missing (critical)
IncotermRule(inv) ==
    LET incoterm == Get(OrEmpty(Get(inv, "commercial_terms")), "incoterm")
    IN  IF ~Truthy(incoterm)
        THEN << Issue("critical", "INCOTERM_MISSING", EmptyDict) >>
        ELSE << >>

\* the quantity check with truthiness in place of "is not None"
QtyRule_truthy(inv, pack) ==
    LET inv_qty == _safe_float(Get(OrEmpty(Get(inv, "cargo")), "total_quantity"))
        pack_qty == _safe_float(Get(OrEmpty(Get(pack, "cargo")), "total_quantity"))
    IN  IF inv_qty # None /\ inv_qty[1] # 0 /\ pack_qty # None /\ pack_qty[1] # 0
           /\ inv_qty # pack_qty
        THEN << Issue("critical", "QTY_MISMATCH_INV_PACK",
                      [invoice_total_quantity |-> inv_qty[1],
                       packing_total_quantity |-> pack_qty[1]]) >>
        ELSE << >>

\* 2) Quantity mismatch invoice vs packing list (critical)
QtyRule(inv, pack) ==
    LET inv_qty == _safe_float(Get(OrEmpty(Get(inv, "cargo")), "total_quantity"))
        pack_qty == _safe_float(Get(OrEmpty(Get(pack, "cargo")), "total_quantity"))
    IN  IF inv_qty # None /\ pack_qty # None /\ inv_qty # pack_qty
        THEN << Issue("critical", "QTY_MISMATCH_INV_PACK",
                      [invoice_total_quantity |-> inv_qty[1],
                       packing_total_quantity |-> pack_qty[1]]) >>
        ELSE << >>

\* 3) Gross weight mismatch packing list vs BL > 2% (critical)
GwRule(pack, bl) ==
    LET pack_gw == _safe_float_of_float(Get(OrEmpty(Get(pack, "cargo")), "total_gross_weight"))
        bl_gw == _safe_float_of_float(Get(OrEmpty(Get(bl, "cargo")), "total_gross_weight"))
    IN  IF pack_gw # None /\ bl_gw # None
        THEN LET diff == _pct_diff(pack_gw[1], bl_gw[1])
             IN  IF ExceedsTolerance(diff)
                 THEN << Issue("critical", "GW_MISMATCH_PACK_BL",
                               [packing_gross_weight |-> pack_gw[1],
                                bl_gross_weight |-> bl_gw[1],
                                pct_diff |-> Round2(diff)]) >>
                 ELSE << >>
        ELSE << >>

\* the number of items whose hs_code is not valid
RECURSIVE CountInvalid(_)
CountInvalid(items) ==
    IF items = << >> THEN 0
    ELSE (IF _hs_valid(Get(OrEmpty(Head(items)), "hs_code")) THEN 0 ELSE 1)
         + CountInvalid(Tail(items))

\* the item-level rule without the issue for an invoice with no items
ItemsRule_no_items_silent(inv) ==
    LET items == OrEmptyList(Get(OrEmpty(Get(inv, "cargo")), "items"))
    IN  IF items # << >>
        THEN LET invalid == CountInvalid(items)
             IN  IF invalid = Len(items)
                 THEN << Issue("high", "HS_ALL_MISSING_OR_INVALID",
                               [items_count |-> Len(items), invalid_count |-> invalid]) >>
                 ELSE << >>
        ELSE << >>

\* 4) HS codes missing/invalid (high), or no items at all (high)
ItemsRule(inv) ==
    LET items == OrEmptyList(Get(OrEmpty(Get(inv, "cargo")), "items"))
    IN  IF items # << >>
        THEN LET invalid == CountInvalid(items)
             IN  IF invalid = Len(items)
                 THEN << Issue("high", "HS_ALL_MISSING_OR_INVALID",
                               [items_count |-> Len(items), invalid_count |-> invalid]) >>
                 ELSE << >>
        ELSE << Issue("high", "NO_ITEMS_EXTRACTED", EmptyDict) >>

\* run_rules with the item-level rule declared first
run_rules_items_first(inv, pack, bl) ==
    ItemsRule(inv) \o CooRule(inv) \o IncotermRule(inv) \o QtyRule(inv, pack) \o GwRule(pack, bl)

run_rules(inv, pack, bl) ==
    CooRule(inv) \o IncotermRule(inv) \o QtyRule(inv, pack) \o GwRule(pack, bl) \o ItemsRule(inv)

(***************************************************************************)
(* extractor.py: text extraction (PDF + OCR)                               *)
(*                                                                         *)
(* A document (file_bytes) is what the PDF and OCR libraries make of it:   *)
(*   native  [raises, pages]: PdfReader raises, or the pages' extract_text *)
(*           results, each a str or None;                                  *)
(*   ocr     [raises, pages]: convert_from_bytes raises, or one            *)
(*           [raises, text] per page image: image_to_string raises or      *)
(*           returns a str.                                                *)
(* A call that can raise returns [raised, val].                            *)
(***************************************************************************)
Returned(v) == [raised |-> FALSE, val |-> v]

Raised == [raised |-> TRUE, val |-> << >>]

RECURSIVE Join(_, _)
Join(parts, sep) ==
    IF parts = << >> THEN << >>
    ELSE IF Len(parts) = 1 THEN parts[1]
    ELSE parts[1] \o sep \o Join(Tail(parts), sep)

\* extract_pdf_text: any exception gives ""
extract_pdf_text(file_bytes) ==
    IF file_bytes.native.raises THEN << >>
    ELSE LET pages == file_bytes.native.pages
             parts == [k \in 1..Len(pages) |-> IF Truthy(pages[k]) THEN pages[k][1] ELSE << >>]
         IN  Strip(Join(parts, <<"\n">>))

\* ocr_pdf(file_bytes, max_pages=3, dpi=220)
OcrMaxPages == 3

ocr_pdf(file_bytes, ocr_available) ==
    IF ~ocr_available THEN Returned(<< >>)
    ELSE IF file_bytes.ocr.raises THEN Raised
    ELSE LET images == file_bytes.ocr.pages
             first == SubSeq(images, 1, Min2(OcrMaxPages, Len(images)))
         IN  IF \E k \in 1..Len(first) : first[k].raises THEN Raised
             ELSE Returned(Strip(Join([k \in 1..Len(first) |-> first[k].text], <<"\n">>)))

Indices(s) == [i \in 1..Len(s) |-> i]

Blank(c) == c \in {" ", "\t"}

\* _normalize_text: NBSP to space, runs of [ \t] to one space, runs of three or
\* more newlines to two, strip
_normalize_text(text) ==
    LET a == [i \in 1..Len(text) |-> IF text[i] = "NBSP" THEN " " ELSE text[i]]
        ka == SelectSeq(Indices(a), LAMBDA i : ~(Blank(a[i]) /\ i > 1 /\ Blank(a[i - 1])))
        b == [k \in 1..Len(ka) |-> IF Blank(a[ka[k]]) THEN " " ELSE a[ka[k]]]
        kb == SelectSeq(Indices(b),
                        LAMBDA i : ~(b[i] = "\n" /\ i > 2 /\ b[i - 1] = "\n" /\ b[i - 2] = "\n"))
        c == [k \in 1..Len(kb) |-> b[kb[k]]]
    IN  Strip(c)

\* if len(text) < 350 and OCR_AVAILABLE
OcrThreshold == 350

\* get_document_text with the OCR text kept when it is at least as long
get_document_text_ge(file_bytes, ocr_available) ==
    LET text == _normalize_text(extract_pdf_text(file_bytes))
        ocr == ocr_pdf(file_bytes, ocr_available)
        ocr_text == _normalize_text(ocr.val)
    IN  IF Len(text) < OcrThreshold /\ ocr_available /\ ~ocr.raised /\ Len(ocr_text) >= Len(text)
        THEN Returned([text |-> ocr_text, method |-> "ocr"])
        ELSE IF text # << >> THEN Returned([text |-> text, method |-> "pdf_text"])
        ELSE Returned([text |-> << >>, method |-> "empty"])

\* get_document_text with the OCR attempt made whatever the native length
get_document_text_any_length(file_bytes, ocr_available) ==
    LET text == _normalize_text(extract_pdf_text(file_bytes))
        ocr == ocr_pdf(file_bytes, ocr_available)
        ocr_text == _normalize_text(ocr.val)
    IN  IF ocr_available /\ ~ocr.raised /\ Len(ocr_text) > Len(text)
        THEN Returned([text |-> ocr_text, method |-> "ocr"])
        ELSE IF text # << >> THEN Returned([text |-> text, method |-> "pdf_text"])
        ELSE Returned([text |-> << >>, method |-> "empty"])

\* get_document_text: an exception of the OCR attempt is swallowed
get_document_text(file_bytes, ocr_available) ==
    LET text == _normalize_text(extract_pdf_text(file_bytes))
        ocr == ocr_pdf(file_bytes, ocr_available)
        ocr_text == _normalize_text(ocr.val)
    IN  IF Len(text) < OcrThreshold /\ ocr_available /\ ~ocr.raised /\ Len(ocr_text) > Len(text)
        THEN Returned([text |-> ocr_text, method |-> "ocr"])
        ELSE IF text # << >> THEN Returned([text |-> text, method |-> "pdf_text"])
        ELSE Returned([text |-> << >>, method |-> "empty"])

(***************************************************************************)
(* extractor.py: regex helpers                                             *)
(*                                                                         *)
(* A pattern is a sequence of nodes, matched by backtracking as Python's   *)
(* re does (greedy repetition longest first, alternatives left to right,   *)
(* the leftmost start), always with re.IGNORECASE:                         *)
(*   [t |-> "cls", cls, min, max]  min..max characters of a class          *)
(*   [t |-> "lit", ch]            one character, whatever its case         *)
(*   [t |-> "b"]                  \b                                       *)
(*   [t |-> "alt", ps]            one of the patterns ps                   *)
(*   [t |-> "open"], [t |-> "close"]   the ends of group 1                 *)
(***************************************************************************)
LowerLetters == <<"a", "b", "c", "d", "e", "f", "g", "h", "i", "j", "k", "l", "m", "n", "o", "p", "q", "r", "s", "t", "u", "v", "w", "x", "y", "z">>

UpperLetters == <<"A", "B", "C", "D", "E", "F", "G", "H", "I", "J", "K", "L", "M", "N", "O", "P", "Q", "R", "S", "T", "U", "V", "W", "X", "Y", "Z">>

Letters == {LowerLetters[k] : k \in 1..26} \cup {UpperLetters[k] : k \in 1..26}

UpperOf == [c \in {LowerLetters[k] : k \in 1..26} |-> UpperLetters[CHOOSE k \in 1..26 : LowerLetters[k] = c]]

\* str.upper() of one character
Upper(c) == IF c \in DOMAIN UpperOf THEN UpperOf[c] ELSE c

\* \w
WordChar(c) == c \in Letters \cup Digits \cup {"_"}

Unbounded == 0 - 1

\* membership of the character classes the patterns use (re.IGNORECASE)
InClass(cls, c) ==
    CASE cls = "s" -> c \in WhiteSpace                      \* \s
      [] cls = "d" -> c \in Digits                          \* \d
      [] cls = "dot" -> c # "\n"                            \* .
      [] cls = "A-Z" -> c \in Letters                       \* [A-Z]
      [] cls = "A-Z0-9" -> c \in Letters \cup Digits        \* [A-Z0-9]
      [] cls = "A-Z0-9-/" -> c \in Letters \cup Digits \cup {"-", "/"}   \* [A-Z0-9\-\/]
      [] cls = "A-Za-z " -> c \in Letters \cup {" "}        \* [A-Za-z ]
      [] cls = "d," -> c \in Digits \cup {","}              \* [\d,]
      [] cls = "d.," -> c \in Digits \cup {".", ","}        \* [\d\.,]
      [] cls = ":#-" -> c \in {":", "#", "-"}               \* [:#\-]
      [] cls = ":-" -> c \in {":", "-"}                     \* [:\-]
      [] cls = ":#" -> c \in {":", "#"}                     \* [:#]

Cls(cls, min, max) == <<[t |-> "cls", cls |-> cls, min |-> min, max |-> max]>>

\* a literal text
Lit(w) == [k \in 1..Len(w) |-> [t |-> "lit", ch |-> w[k]]]

\* an optional literal character
OptLit(c) == <<[t |-> "alt", ps |-> <<Lit(<<c>>), << >>>>]>>

WB == <<[t |-> "b"]>>

Alt(ps) == <<[t |-> "alt", ps |-> ps]>>

Group(p) == <<[t |-> "open"]>> \o p \o <<[t |-> "close"]>>

NoMatch == [ok |-> FALSE, start |-> 0, end |-> 0, gs |-> 0, ge |-> 0]

\* \b at position i: between s[i-1] and s[i], exactly one is a word character
AtBoundary(s, i) ==
    (i > 1 /\ WordChar(s[i - 1])) # (i <= Len(s) /\ WordChar(s[i]))

\* the number of characters of the class from position i, at most max
RECURSIVE RunLength(_, _, _, _, _)
RunLength(cls, s, i, n, max) ==
    IF (max # Unbounded /\ n >= max) \/ i + n > Len(s) \/ ~InClass(cls, s[i + n]) THEN n
    ELSE RunLength(cls, s, i, n + 1, max)

RECURSIVE MatchAt(_, _, _, _, _)
RECURSIVE TryLengths(_, _, _, _, _, _, _)
RECURSIVE TryAlts(_, _, _, _, _, _)

\* the first match of the pattern at position i, with group 1 at gs..ge-1
MatchAt(pat, s, i, gs, ge) ==
    IF pat = << >> THEN [ok |-> TRUE, start |-> 0, end |-> i, gs |-> gs, ge |-> ge]
    ELSE LET node == Head(pat)
             rest == Tail(pat)
         IN  CASE node.t = "lit" ->
                    IF i <= Len(s) /\ Upper(s[i]) = Upper(node.ch)
                    THEN MatchAt(rest, s, i + 1, gs, ge) ELSE NoMatch
               [] node.t = "cls" ->
                    TryLengths(rest, s, i, RunLength(node.cls, s, i, 0, node.max), node.min, gs, ge)
               [] node.t = "b" ->
                    IF AtBoundary(s, i) THEN MatchAt(rest, s, i, gs, ge) ELSE NoMatch
               [] node.t = "alt" -> TryAlts(node.ps, rest, s, i, gs, ge)
               [] node.t = "open" -> MatchAt(rest, s, i, i, ge)
               [] node.t = "close" -> MatchAt(rest, s, i, gs, i)

\* greedy repetition: the longest run first, then shorter ones
TryLengths(rest, s, i, n, min, gs, ge) ==
    IF n < min THEN NoMatch
    ELSE LET r == MatchAt(rest, s, i + n, gs, ge)
         IN  IF r.ok THEN r ELSE TryLengths(rest, s, i, n - 1, min, gs, ge)

\* alternatives in the order written
TryAlts(ps, rest, s, i, gs, ge) ==
    IF ps = << >> THEN NoMatch
    ELSE LET r == MatchAt(Head(ps) \o rest, s, i, gs, ge)
         IN  IF r.ok THEN r ELSE TryAlts(Tail(ps), rest, s, i, gs, ge)

\* the positions at which the pattern matches
MatchStarts(pat, s) == {i \in 1..(Len(s) + 1) : MatchAt(pat, s, i, 0, 0).ok}

\* re.search(pat, text, flags=re.IGNORECASE): the leftmost match
Search(pat, s) ==
    LET starts == MatchStarts(pat, s)
    IN  IF starts = {} THEN NoMatch
        ELSE LET i == CHOOSE a \in starts : \A b \in starts : a <= b
             IN  [MatchAt(pat, s, i, 0, 0) EXCEPT !.start = i]

\* m.group(1)
Group1(s, m) == SubSeq(s, m.gs, m.ge - 1)

\* _find_first: the first pattern that matches decides, even when its group is blank
RECURSIVE _find_first(_, _)
_find_first(patterns, text) ==
    IF patterns = << >> THEN None
    ELSE LET m == Search(Head(patterns), text)
         IN  IF m.ok
             THEN LET val == Strip(Group1(text, m))
                  IN  IF val # << >> THEN Some(val) ELSE None
             ELSE _find_first(Tail(patterns), text)

(***************************************************************************)
(* extractor.py: normalizers and field extraction                          *)
(***************************************************************************)
\* s with its trailing characters outside [\w\-\/] removed
RECURSIVE StripTrailingPunct(_)
StripTrailingPunct(s) ==
    IF s # << >> /\ ~(WordChar(s[Len(s)]) \/ s[Len(s)] \in {"-", "/"})
    THEN StripTrailingPunct(SubSeq(s, 1, Len(s) - 1)) ELSE s

\* _clean_id
_clean_id(s) ==
    IF ~Truthy(s) THEN None
    ELSE LET c == StripTrailingPunct(Strip(s[1]))
         IN  IF c # << >> THEN Some(c) ELSE None

DigitValue(c) == CHOOSE v \in 0..9 : <<"0", "1", "2", "3", "4", "5", "6", "7", "8", "9">>[v + 1] = c

\* int(s) of a string of digits
RECURSIVE IntOf(_)
IntOf(s) == IF s = << >> THEN 0 ELSE IntOf(SubSeq(s, 1, Len(s) - 1)) * 10 + DigitValue(s[Len(s)])

\* _to_int: the digits of s, or None when there is none
_to_int(s) ==
    IF ~Truthy(s) THEN None
    ELSE LET d == Keep(Strip(s[1]), Digits)
         IN  IF d # << >> THEN Some(IntOf(d)) ELSE None

\* float(s) accepts [+-]?(digits[.digits*] | .digits) among the strings of digits,
\* dots and signs; anything else raises ValueError
FloatSyntax(s) ==
    LET body == IF s # << >> /\ s[1] \in {"+", "-"} THEN Tail(s) ELSE s
        dots == Len(Keep(body, {"."}))
    IN  /\ \A k \in 1..Len(body) : body[k] \in Digits \cup {"."}
        /\ dots <= 1
        /\ Len(Keep(body, Digits)) >= 1

\* the value of float(s) in hundredths (the third and later decimals are cut)
FloatOf(s) ==
    LET neg == s[1] = "-"
        body == IF s[1] \in {"+", "-"} THEN Tail(s) ELSE s
        dot == IF \E k \in 1..Len(body) : body[k] = "."
               THEN CHOOSE k \in 1..Len(body) : body[k] = "." ELSE Len(body) + 1
        whole == SubSeq(body, 1, dot - 1)
        frac == SubSeq(SubSeq(body, dot + 1, Len(body)) \o <<"0", "0">>, 1, 2)
        v == IntOf(whole) * 100 + IntOf(frac)
    IN  IF neg THEN 0 - v ELSE v

\* _to_float with the commas kept for float() to reject
_to_float_keep_commas(s) ==
    IF ~Truthy(s) THEN None
    ELSE LET kept == Keep(Strip(s[1]), Digits \cup {".", ",", "-", "+"})
         IN  IF kept = << >> THEN None
             ELSE IF FloatSyntax(kept) THEN Some(FloatOf(kept)) ELSE None

\* _to_float: keep digits, dots, commas and signs, drop the commas, parse
_to_float(s) ==
    IF ~Truthy(s) THEN None
    ELSE LET kept == Keep(Strip(s[1]), Digits \cup {".", ",", "-", "+"})
             plain == SelectSeq(kept, LAMBDA c : c # ",")
         IN  IF kept = << >> THEN None
             ELSE IF FloatSyntax(plain) THEN Some(FloatOf(plain)) ELSE None

\* \b<code>\b
CodeWord(code) == WB \o Lit(code) \o WB

\* the first code of the list found in the text as a word
RECURSIVE FirstCodeIn(_, _)
FirstCodeIn(codes, text) ==
    IF codes = << >> THEN None
    ELSE IF Search(CodeWord(Head(codes)), text).ok THEN Some(Head(codes))
    ELSE FirstCodeIn(Tail(codes), text)

\* \bCurrency\s*[:#]?\s*([A-Z]{3})\b
CurrencyPattern ==
    WB \o Lit(<<"C", "u", "r", "r", "e", "n", "c", "y">>) \o Cls("s", 0, Unbounded) \o Cls(":#", 0, 1) \o Cls("s", 0, Unbounded) \o Group(Cls("A-Z", 3, 3)) \o WB

CurrencyCodes ==
    << <<"U", "S", "D">>, <<"A", "E", "D">>, <<"I", "N", "R">>, <<"E", "U", "R">>, <<"G", "B", "P">>, <<"S", "A", "R">>, <<"O", "M", "R">>, <<"Q", "A", "R">> >>

\* _guess_currency falling back to USD when no currency is found
_guess_currency_default_usd(text) ==
    LET cur == _find_first(<<CurrencyPattern>>, text)
        code == FirstCodeIn(CurrencyCodes, text)
    IN  IF Truthy(cur) THEN Some([k \in 1..Len(cur[1]) |-> Upper(cur[1][k])])
        ELSE IF code = None THEN Some(<<"U", "S", "D">>)
        ELSE code

\* _guess_currency
_guess_currency(text) ==
    LET cur == _find_first(<<CurrencyPattern>>, text)
    IN  IF Truthy(cur) THEN Some([k \in 1..Len(cur[1]) |-> Upper(cur[1][k])])
        ELSE FirstCodeIn(CurrencyCodes, text)

Incoterms ==
    << <<"E", "X", "W">>, <<"F", "C", "A">>, <<"C", "P", "T">>, <<"C", "I", "P">>, <<"D", "A", "P">>, <<"D", "P", "U">>, <<"D", "D", "P">>, <<"F", "O", "B">>, <<"C", "F", "R">>, <<"C", "I", "F">> >>

\* _guess_incoterm
_guess_incoterm(text) == FirstCodeIn(Incoterms, text)

\* Gross\s*Weight\s*[:\-]?\s*([\d\.,]+)
GrossWeightPattern ==
    Lit(<<"G", "r", "o", "s", "s">>) \o Cls("s", 0, Unbounded) \o Lit(<<"W", "e", "i", "g", "h", "t">>) \o Cls("s", 0, Unbounded) \o Cls(":-", 0, 1) \o Cls("s", 0, Unbounded) \o Group(Cls("d.,", 1, Unbounded))

\* Net\s*Weight\s*[:\-]?\s*([\d\.,]+)
NetWeightPattern ==
    Lit(<<"N", "e", "t">>) \o Cls("s", 0, Unbounded) \o Lit(<<"W", "e", "i", "g", "h", "t">>) \o Cls("s", 0, Unbounded) \o Cls(":-", 0, 1) \o Cls("s", 0, Unbounded) \o Group(Cls("d.,", 1, Unbounded))

\* _extract_weight_value
_extract_weight_value(text, pattern) ==
    LET m == Search(pattern, text)
    IN  IF m.ok THEN _to_float(Some(Group1(text, m))) ELSE None

\* \bTotal\s+Quantity..., \bQuantity..., \bQty... \s*[:\-]?\s*([\d,]+)\b
QtyPatterns ==
    << WB \o Lit(<<"T", "o", "t", "a", "l">>) \o Cls("s", 1, Unbounded) \o Lit(<<"Q", "u", "a", "n", "t", "i", "t", "y">>) \o Cls("s", 0, Unbounded) \o Cls(":-", 0, 1) \o Cls("s", 0, Unbounded) \o Group(Cls("d,", 1, Unbounded)) \o WB,
       WB \o Lit(<<"Q", "u", "a", "n", "t", "i", "t", "y">>) \o Cls("s", 0, Unbounded) \o Cls(":-", 0, 1) \o Cls("s", 0, Unbounded) \o Group(Cls("d,", 1, Unbounded)) \o WB,
       WB \o Lit(<<"Q", "t", "y">>) \o Cls("s", 0, Unbounded) \o Cls(":-", 0, 1) \o Cls("s", 0, Unbounded) \o Group(Cls("d,", 1, Unbounded)) \o WB >>

\* _extract_qty_value
_extract_qty_value(text) == _to_int(_find_first(QtyPatterns, text))

\* \bNo\.?\s*of\s*Cartons..., \bNo\.?\s*of\s*Packages..., \bCartons..., \bPackages... \s*[:\-]?\s*([\d,]+)\b
PackagePatterns ==
    << WB \o Lit(<<"N", "o">>) \o OptLit(".") \o Cls("s", 0, Unbounded) \o Lit(<<"o", "f">>) \o Cls("s", 0, Unbounded) \o Lit(<<"C", "a", "r", "t", "o", "n", "s">>) \o Cls("s", 0, Unbounded) \o Cls(":-", 0, 1) \o Cls("s", 0, Unbounded) \o Group(Cls("d,", 1, Unbounded)) \o WB,
       WB \o Lit(<<"N", "o">>) \o OptLit(".") \o Cls("s", 0, Unbounded) \o Lit(<<"o", "f">>) \o Cls("s", 0, Unbounded) \o Lit(<<"P", "a", "c", "k", "a", "g", "e", "s">>) \o Cls("s", 0, Unbounded) \o Cls(":-", 0, 1) \o Cls("s", 0, Unbounded) \o Group(Cls("d,", 1, Unbounded)) \o WB,
       WB \o Lit(<<"C", "a", "r", "t", "o", "n", "s">>) \o Cls("s", 0, Unbounded) \o Cls(":-", 0, 1) \o Cls("s", 0, Unbounded) \o Group(Cls("d,", 1, Unbounded)) \o WB,
       WB \o Lit(<<"P", "a", "c", "k", "a", "g", "e", "s">>) \o Cls("s", 0, Unbounded) \o Cls(":-", 0, 1) \o Cls("s", 0, Unbounded) \o Group(Cls("d,", 1, Unbounded)) \o WB >>

\* _extract_packages
_extract_packages(text) == _to_int(_find_first(PackagePatterns, text))

\* \b<label>\s*[:\-]\s*(.+)
PartyPattern(label) ==
    WB \o Lit(label) \o Cls("s", 0, Unbounded) \o Cls(":-", 1, 1) \o Cls("s", 0, Unbounded)
       \o Group(Cls("dot", 1, Unbounded))

\* the text up to its first newline
FirstLine(s) ==
    IF \E k \in 1..Len(s) : s[k] = "\n"
    THEN SubSeq(s, 1, (CHOOSE k \in 1..Len(s) : s[k] = "\n" /\ \A j \in 1..(k - 1) : s[j] # "\n") - 1)
    ELSE s

\* _extract_party: the first label that matches decides
RECURSIVE _extract_party(_, _)
_extract_party(text, labels) ==
    IF labels = << >> THEN None
    ELSE LET m == Search(PartyPattern(Head(labels)), text)
         IN  IF m.ok
             THEN LET val == Strip(FirstLine(Strip(Group1(text, m))))
                  IN  IF val # << >> THEN Some(val) ELSE None
             ELSE _extract_party(text, Tail(labels))

\* the labels _extract_party is called with, in the order tried
PartyLabels ==
    [exporter |-> << <<"E", "x", "p", "o", "r", "t", "e", "r">>,
                    <<"S", "e", "l", "l", "e", "r">>,
                    <<"S", "h", "i", "p", "p", "e", "r">> >>,
     importer |-> << <<"I", "m", "p", "o", "r", "t", "e", "r">>,
                    <<"B", "u", "y", "e", "r">>,
                    <<"C", "o", "n", "s", "i", "g", "n", "e", "e">> >>,
     shipper |-> << <<"S", "h", "i", "p", "p", "e", "r">>,
                   <<"E", "x", "p", "o", "r", "t", "e", "r">> >>,
     consignee |-> << <<"C", "o", "n", "s", "i", "g", "n", "e", "e">>,
                     <<"I", "m", "p", "o", "r", "t", "e", "r">> >>]

\* \bInvoice\s*(?:No|Number)\s*[:#\-]?\s*([A-Z0-9][A-Z0-9\-\/]+)\b, \bInv\s*(?:No|Number)...
InvoiceNoPatterns ==
    << WB \o Lit(<<"I", "n", "v", "o", "i", "c", "e">>) \o Cls("s", 0, Unbounded) \o Alt(<<Lit(<<"N", "o">>), Lit(<<"N", "u", "m", "b", "e", "r">>)>>) \o Cls("s", 0, Unbounded) \o Cls(":#-", 0, 1) \o Cls("s", 0, Unbounded) \o Group(Cls("A-Z0-9", 1, 1) \o Cls("A-Z0-9-/", 1, Unbounded)) \o WB,
       WB \o Lit(<<"I", "n", "v">>) \o Cls("s", 0, Unbounded) \o Alt(<<Lit(<<"N", "o">>), Lit(<<"N", "u", "m", "b", "e", "r">>)>>) \o Cls("s", 0, Unbounded) \o Cls(":#-", 0, 1) \o Cls("s", 0, Unbounded) \o Group(Cls("A-Z0-9", 1, 1) \o Cls("A-Z0-9-/", 1, Unbounded)) \o WB >>

\* \bTotal\s*Amount\s*[:\-]?\s*(?:[A-Z]{3}\s*)?([\d,]+\.\d+|[\d,]+)\b, \bGrand\s*Total..., \bTotal...
TotalAmountPatterns ==
    << WB \o Lit(<<"T", "o", "t", "a", "l">>) \o Cls("s", 0, Unbounded) \o Lit(<<"A", "m", "o", "u", "n", "t">>) \o Cls("s", 0, Unbounded) \o Cls(":-", 0, 1) \o Cls("s", 0, Unbounded) \o Alt(<<Cls("A-Z", 3, 3) \o Cls("s", 0, Unbounded), << >>>>) \o Group(Alt(<<Cls("d,", 1, Unbounded) \o Lit(<<".">>) \o Cls("d", 1, Unbounded), Cls("d,", 1, Unbounded)>>)) \o WB,
       WB \o Lit(<<"G", "r", "a", "n", "d">>) \o Cls("s", 0, Unbounded) \o Lit(<<"T", "o", "t", "a", "l">>) \o Cls("s", 0, Unbounded) \o Cls(":-", 0, 1) \o Cls("s", 0, Unbounded) \o Alt(<<Cls("A-Z", 3, 3) \o Cls("s", 0, Unbounded), << >>>>) \o Group(Alt(<<Cls("d,", 1, Unbounded) \o Lit(<<".">>) \o Cls("d", 1, Unbounded), Cls("d,", 1, Unbounded)>>)) \o WB,
       WB \o Lit(<<"T", "o", "t", "a", "l">>) \o Cls("s", 0, Unbounded) \o Cls(":-", 0, 1) \o Cls("s", 0, Unbounded) \o Alt(<<Cls("A-Z", 3, 3) \o Cls("s", 0, Unbounded), << >>>>) \o Group(Alt(<<Cls("d,", 1, Unbounded) \o Lit(<<".">>) \o Cls("d", 1, Unbounded), Cls("d,", 1, Unbounded)>>)) \o WB >>

\* \bPacking\s*List\s*(?:No|Number)\s*[:#\-]?\s*([A-Z0-9][A-Z0-9\-\/]+)\b, \bP\/L..., \bPL...
PackingListNoPatterns ==
    << WB \o Lit(<<"P", "a", "c", "k", "i", "n", "g">>) \o Cls("s", 0, Unbounded) \o Lit(<<"L", "i", "s", "t">>) \o Cls("s", 0, Unbounded) \o Alt(<<Lit(<<"N", "o">>), Lit(<<"N", "u", "m", "b", "e", "r">>)>>) \o Cls("s", 0, Unbounded) \o Cls(":#-", 0, 1) \o Cls("s", 0, Unbounded) \o Group(Cls("A-Z0-9", 1, 1) \o Cls("A-Z0-9-/", 1, Unbounded)) \o WB,
       WB \o Lit(<<"P", "/", "L">>) \o Cls("s", 0, Unbounded) \o Alt(<<Lit(<<"N", "o">>), Lit(<<"N", "u", "m", "b", "e", "r">>)>>) \o Cls("s", 0, Unbounded) \o Cls(":#-", 0, 1) \o Cls("s", 0, Unbounded) \o Group(Cls("A-Z0-9", 1, 1) \o Cls("A-Z0-9-/", 1, Unbounded)) \o WB,
       WB \o Lit(<<"P", "L">>) \o Cls("s", 0, Unbounded) \o Alt(<<Lit(<<"N", "o">>), Lit(<<"N", "u", "m", "b", "e", "r">>)>>) \o Cls("s", 0, Unbounded) \o Cls(":#-", 0, 1) \o Cls("s", 0, Unbounded) \o Group(Cls("A-Z0-9", 1, 1) \o Cls("A-Z0-9-/", 1, Unbounded)) \o WB >>

\* \bB\/L\s*(?:No|Number)\s*[:#\-]?\s*([A-Z0-9][A-Z0-9\-\/]+)\b, \bBL..., \bBill\s*of\s*Lading...
BlNoPatterns ==
    << WB \o Lit(<<"B", "/", "L">>) \o Cls("s", 0, Unbounded) \o Alt(<<Lit(<<"N", "o">>), Lit(<<"N", "u", "m", "b", "e", "r">>)>>) \o Cls("s", 0, Unbounded) \o Cls(":#-", 0, 1) \o Cls("s", 0, Unbounded) \o Group(Cls("A-Z0-9", 1, 1) \o Cls("A-Z0-9-/", 1, Unbounded)) \o WB,
       WB \o Lit(<<"B", "L">>) \o Cls("s", 0, Unbounded) \o Alt(<<Lit(<<"N", "o">>), Lit(<<"N", "u", "m", "b", "e", "r">>)>>) \o Cls("s", 0, Unbounded) \o Cls(":#-", 0, 1) \o Cls("s", 0, Unbounded) \o Group(Cls("A-Z0-9", 1, 1) \o Cls("A-Z0-9-/", 1, Unbounded)) \o WB,
       WB \o Lit(<<"B", "i", "l", "l">>) \o Cls("s", 0, Unbounded) \o Lit(<<"o", "f">>) \o Cls("s", 0, Unbounded) \o Lit(<<"L", "a", "d", "i", "n", "g">>) \o Cls("s", 0, Unbounded) \o Alt(<<Lit(<<"N", "o">>), Lit(<<"N", "u", "m", "b", "e", "r">>)>>) \o Cls("s", 0, Unbounded) \o Cls(":#-", 0, 1) \o Cls("s", 0, Unbounded) \o Group(Cls("A-Z0-9", 1, 1) \o Cls("A-Z0-9-/", 1, Unbounded)) \o WB >>

\* \bFreight\s*[:\-]?\s*(Prepaid|Collect)\b, \bFreight\s*Terms\s*[:\-]?\s*([A-Za-z ]+)\b
FreightPatterns ==
    << WB \o Lit(<<"F", "r", "e", "i", "g", "h", "t">>) \o Cls("s", 0, Unbounded) \o Cls(":-", 0, 1) \o Cls("s", 0, Unbounded) \o Group(Alt(<<Lit(<<"P", "r", "e", "p", "a", "i", "d">>), Lit(<<"C", "o", "l", "l", "e", "c", "t">>)>>)) \o WB,
       WB \o Lit(<<"F", "r", "e", "i", "g", "h", "t">>) \o Cls("s", 0, Unbounded) \o Lit(<<"T", "e", "r", "m", "s">>) \o Cls("s", 0, Unbounded) \o Cls(":-", 0, 1) \o Cls("s", 0, Unbounded) \o Group(Cls("A-Za-z ", 1, Unbounded)) \o WB >>

\* \bPort\s*of\s*Loading\s*[:\-]?\s*(.+)
PortOfLoadingPattern ==
    WB \o Lit(<<"P", "o", "r", "t">>) \o Cls("s", 0, Unbounded) \o Lit(<<"o", "f">>) \o Cls("s", 0, Unbounded) \o Lit(<<"L", "o", "a", "d", "i", "n", "g">>) \o Cls("s", 0, Unbounded) \o Cls(":-", 0, 1) \o Cls("s", 0, Unbounded) \o Group(Cls("dot", 1, Unbounded))

\* \bPort\s*of\s*Discharge\s*[:\-]?\s*(.+)
PortOfDischargePattern ==
    WB \o Lit(<<"P", "o", "r", "t">>) \o Cls("s", 0, Unbounded) \o Lit(<<"o", "f">>) \o Cls("s", 0, Unbounded) \o Lit(<<"D", "i", "s", "c", "h", "a", "r", "g", "e">>) \o Cls("s", 0, Unbounded) \o Cls(":-", 0, 1) \o Cls("s", 0, Unbounded) \o Group(Cls("dot", 1, Unbounded))

\* \bVessel\b|\bPort\b|\bBill of Lading\b
SeaModePattern ==
    Alt(<<WB \o Lit(<<"V", "e", "s", "s", "e", "l">>) \o WB, WB \o Lit(<<"P", "o", "r", "t">>) \o WB, WB \o Lit(<<"B", "i", "l", "l", " ", "o", "f", " ", "L", "a", "d", "i", "n", "g">>) \o WB>>)

\* {"name": x} if x else {}
PartyDict(name) == IF Truthy(name) THEN [name |-> name] ELSE EmptyDict

\* pol.split("\n")[0].strip() of a port that was found
CutPort(p) == IF Truthy(p) THEN Some(Strip(FirstLine(p[1]))) ELSE p

ExtractInvoice(text) ==
    [doc_type |-> Some("invoice"),
     parties |-> Some([exporter |-> Some(PartyDict(_extract_party(text, PartyLabels.exporter))),
                       importer |-> Some(PartyDict(_extract_party(text, PartyLabels.importer)))]),
     commercial_terms |-> Some([invoice_number |-> _clean_id(_find_first(InvoiceNoPatterns, text)),
                                incoterm |-> _guess_incoterm(text),
                                invoice_value |-> _to_float(_find_first(TotalAmountPatterns, text)),
                                currency |-> _guess_currency(text)]),
     cargo |-> Some([total_quantity |-> _extract_qty_value(text), items |-> Some(<< >>)]),
     transport |-> Some(EmptyDict)]

ExtractPackingList(text) ==
    [doc_type |-> Some("packing_list"),
     parties |-> Some([exporter |-> Some(PartyDict(_extract_party(text, PartyLabels.exporter))),
                       importer |-> Some(PartyDict(_extract_party(text, PartyLabels.importer)))]),
     commercial_terms |-> Some([packing_list_number |-> _clean_id(_find_first(PackingListNoPatterns, text))]),
     cargo |-> Some([total_quantity |-> _extract_qty_value(text),
                     total_packages |-> _extract_packages(text),
                     total_gross_weight |-> _extract_weight_value(text, GrossWeightPattern),
                     total_net_weight |-> _extract_weight_value(text, NetWeightPattern),
                     items |-> Some(<< >>)]),
     transport |-> Some(EmptyDict)]

ExtractBillOfLading(text) ==
    LET freight_terms == _find_first(FreightPatterns, text)
    IN  [doc_type |-> Some("bill_of_lading"),
         parties |-> Some([shipper |-> Some(PartyDict(_extract_party(text, PartyLabels.shipper))),
                           consignee |-> Some(PartyDict(_extract_party(text, PartyLabels.consignee)))]),
         commercial_terms |-> Some([freight_terms |-> IF Truthy(freight_terms)
                                                        THEN Some(Strip(freight_terms[1]))
                                                        ELSE freight_terms]),
         cargo |-> Some([total_packages |-> _extract_packages(text),
                         total_gross_weight |-> _extract_weight_value(text, GrossWeightPattern),
                         items |-> Some(<< >>)]),
         transport |-> Some([bl_number |-> _clean_id(_find_first(BlNoPatterns, text)),
                             mode |-> IF Search(SeaModePattern, text).ok
                                      THEN Some(<<"S", "E", "A">>) ELSE None,
                             port_of_loading |-> CutPort(_find_first(<<PortOfLoadingPattern>>, text)),
                             port_of_discharge |-> CutPort(_find_first(<<PortOfDischargePattern>>, text))])]

\* extract_fields: any doc_type other than invoice and packing_list is read as
\* a bill of lading
extract_fields(doc_type, text) ==
    IF doc_type = "invoice" THEN ExtractInvoice(text)
    ELSE IF doc_type = "packing_list" THEN ExtractPackingList(text)
    ELSE ExtractBillOfLading(text)

(***************************************************************************)
(* extractor.py: extract_document_with_debug                               *)
(***************************************************************************)
\* x.get(k) is not None
Found(d, k) == Get(d, k) # None

\* min(n, len(s)) first characters: s[:n]
Prefix(s, n) == SubSeq(s, 1, Min2(n, Len(s)))

\* the length of text_preview
PreviewChars == 1500

FieldsFound(doc_type, data) ==
    LET ct == OrEmpty(Get(data, "commercial_terms"))
        cargo == OrEmpty(Get(data, "cargo"))
        tr == OrEmpty(Get(data, "transport"))
    IN  IF doc_type = "invoice"
        THEN [invoice_number |-> Truthy(Get(ct, "invoice_number")),
              incoterm |-> Truthy(Get(ct, "incoterm")),
              invoice_value |-> Found(ct, "invoice_value"),
              currency |-> Truthy(Get(ct, "currency")),
              total_quantity |-> Found(cargo, "total_quantity")]
        ELSE IF doc_type = "packing_list"
        THEN [packing_list_number |-> Truthy(Get(ct, "packing_list_number")),
              total_quantity |-> Found(cargo, "total_quantity"),
              total_packages |-> Found(cargo, "total_packages"),
              total_gross_weight |-> Found(cargo, "total_gross_weight"),
              total_net_weight |-> Found(cargo, "total_net_weight")]
        ELSE [bl_number |-> Truthy(Get(tr, "bl_number")),
              port_of_loading |-> Truthy(Get(tr, "port_of_loading")),
              port_of_discharge |-> Truthy(Get(tr, "port_of_discharge")),
              freight_terms |-> Truthy(Get(ct, "freight_terms")),
              total_packages |-> Found(cargo, "total_packages"),
              total_gross_weight |-> Found(cargo, "total_gross_weight")]

\* Then of the value of x, x evaluated once
Bind(x, Then(_)) == CHOOSE r \in {Then(v) : v \in {x}} : TRUE

\* extract_document_with_debug: (data, debug)
extract_document_with_debug(doc_type, file_bytes, ocr_available) ==
    Bind(get_document_text(file_bytes, ocr_available).val, LAMBDA got :
    Bind(extract_fields(doc_type, got.text), LAMBDA data :
        [data |-> data,
         debug |-> [doc_type |-> doc_type,
                    ocr_available |-> ocr_available,
                    extraction_method |-> got.method,
                    text_chars |-> Len(got.text),
                    text_preview |-> Prefix(got.text, PreviewChars),
                    fields_found |-> FieldsFound(doc_type, data)]]))

(***************************************************************************)
(* main.py                                                                 *)
(***************************************************************************)
\* (section, key) of each dotted path, whether the extractor makes the value a
\* str, and the label
BaselineField(section, key, str, label) ==
    [section |-> section, key |-> key, str |-> str, label |-> label]

BASELINE_REQUIRED_FIELDS ==
    [invoice |->
        << BaselineField("commercial_terms", "invoice_number", TRUE, "Invoice number"),
           BaselineField("commercial_terms", "invoice_value", FALSE, "Invoice value"),
           BaselineField("commercial_terms", "currency", TRUE, "Currency"),
           BaselineField("cargo", "total_quantity", FALSE, "Total quantity") >>,
     packing_list |->
        << BaselineField("cargo", "total_packages", FALSE, "Total packages/cartons"),
           BaselineField("cargo", "total_gross_weight", FALSE, "Gross weight"),
           BaselineField("cargo", "total_net_weight", FALSE, "Net weight"),
           BaselineField("cargo", "total_quantity", FALSE, "Total quantity") >>,
     bill_of_lading |->
        << BaselineField("transport", "bl_number", TRUE, "BL number"),
           BaselineField("transport", "port_of_loading", TRUE, "Port of loading"),
           BaselineField("transport", "port_of_discharge", TRUE, "Port of discharge"),
           BaselineField("cargo", "total_packages", FALSE, "Total packages"),
           BaselineField("cargo", "total_gross_weight", FALSE, "Gross weight") >>]

DocTypes == <<"invoice", "packing_list", "bill_of_lading">>

\* _get_path(obj, "section.key")
_get_path(obj, section, key) ==
    LET cur == Get(obj, section)
    IN  IF cur = None THEN None ELSE Get(cur[1], key)

\* val is None or (isinstance(val, str) and not val.strip())
IsMissing(val, isStr) == val = None \/ (isStr /\ Strip(val[1]) = << >>)

\* the (doc_type, field) pairs of the baseline that are missing, in order
MissingOf(extracted, doc_type) ==
    LET doc_obj == OrEmpty(Get(extracted, doc_type))
        fields == BASELINE_REQUIRED_FIELDS[doc_type]
    IN  SelectSeq([k \in 1..Len(fields) |-> [doc |-> doc_type, field |-> fields[k]]],
                  LAMBDA e : IsMissing(_get_path(doc_obj, e.field.section, e.field.key), e.field.str))

RECURSIVE SumSeq(_)
SumSeq(s) == IF s = << >> THEN 0 ELSE Head(s) + SumSeq(Tail(s))

\* round(a / b) of two non-negative integers, ties to even
RoundDiv(a, b) ==
    LET q == a \div b
        r == a % b
    IN  IF 2 * r > b \/ (2 * r = b /\ q % 2 = 1) THEN q + 1 ELSE q

\* int(avg_conf * 100) of avg_conf = h/100: the float product falls just below
\* the integer for 0.29, 0.57 and 0.58, and int() truncates
IntOfTimes100(h) == IF h \in {29, 57, 58} THEN h - 1 ELSE h

\* compute_readiness with a record lacking confidence_overall taken as 1.0
compute_readiness_default_full(report, issues) ==
    LET debug == OrEmpty(Get(report, "debug"))
        extracted == OrEmpty(Get(report, "extracted_summary"))
        docs == SelectSeq(DocTypes, LAMBDA d : d \in DOMAIN debug)
        confidences == [k \in 1..Len(docs) |->
                          LET c == Get(debug[docs[k]], "confidence_overall")
                          IN  IF c = None THEN 100 ELSE c[1]]
        avg_conf == IF confidences # << >> THEN RoundDiv(SumSeq(confidences), Len(confidences)) ELSE 0
        missing == MissingOf(extracted, "invoice") \o MissingOf(extracted, "packing_list")
                       \o MissingOf(extracted, "bill_of_lading")
        missing_fields == Len(missing)
        critical_issues == Len(SelectSeq(issues, LAMBDA i : i.severity = "critical"))
        raw == IntOfTimes100(avg_conf) - Min2(30, missing_fields * 4) - critical_issues * 15
        score == Max2(0, Min2(100, raw))
        level == IF critical_issues >= 2 THEN "low"
                 ELSE IF critical_issues = 1 THEN (IF score >= 70 THEN "medium" ELSE "low")
                 ELSE IF score >= 85 THEN "high"
                 ELSE IF score >= 65 THEN "medium"
                 ELSE "low"
    IN  [level |-> level,
         score |-> score,
         missing_fields |-> missing_fields,
         critical_issues |-> critical_issues,
         missing_breakdown |-> [k \in 1..Len(missing) |->
                                  [doc |-> missing[k].doc, field |-> missing[k].field.label]],
         avg_extraction_confidence |-> avg_conf]

\* compute_readiness(report, issues); confidences are floats in hundredths
compute_readiness(report, issues) ==
    LET debug == OrEmpty(Get(report, "debug"))
        extracted == OrEmpty(Get(report, "extracted_summary"))
        docs == SelectSeq(DocTypes, LAMBDA d : d \in DOMAIN debug)
        confidences == [k \in 1..Len(docs) |->
                          LET c == Get(debug[docs[k]], "confidence_overall")
                          IN  IF c = None THEN 0 ELSE c[1]]
        avg_conf == IF confidences # << >> THEN RoundDiv(SumSeq(confidences), Len(confidences)) ELSE 0
        missing == MissingOf(extracted, "invoice") \o MissingOf(extracted, "packing_list")
                       \o MissingOf(extracted, "bill_of_lading")
        missing_fields == Len(missing)
        critical_issues == Len(SelectSeq(issues, LAMBDA i : i.severity = "critical"))
        raw == IntOfTimes100(avg_conf) - Min2(30, missing_fields * 4) - critical_issues * 15
        score == Max2(0, Min2(100, raw))
        level == IF critical_issues >= 2 THEN "low"
                 ELSE IF critical_issues = 1 THEN (IF score >= 70 THEN "medium" ELSE "low")
                 ELSE IF score >= 85 THEN "high"
                 ELSE IF score >= 65 THEN "medium"
                 ELSE "low"
    IN  [level |-> level,
         score |-> score,
         missing_fields |-> missing_fields,
         critical_issues |-> critical_issues,
         missing_breakdown |-> [k \in 1..Len(missing) |->
                                  [doc |-> missing[k].doc, field |-> missing[k].field.label]],
         avg_extraction_confidence |-> avg_conf]

\* Issue.model_dump()
model_dump(i) == [severity |-> i.severity, code |-> i.code, evidence |-> i.evidence]

\* the result dict of analyze_documents once the documents are extracted and
\* the rules have run
Report(i, p, b, issues) ==
    LET score == score_issues(issues)
        issues_for_report == [k \in 1..Len(issues) |-> model_dump(issues[k])]
        result == [route |-> [origin_country |-> "IN", destination_country |-> "AE"],
                   risk_score |-> score,
                   risk_band |-> risk_band(score),
                   issues |-> issues_for_report,
                   extracted_summary |-> [invoice |-> i.data, packing_list |-> p.data,
                                          bill_of_lading |-> b.data],
                   debug |-> [invoice |-> i.debug, packing_list |-> p.debug,
                              bill_of_lading |-> b.debug]]
        report == [debug |-> Some(result.debug),
                   extracted_summary |-> Some([invoice |-> Some(i.data),
                                                packing_list |-> Some(p.data),
                                                bill_of_lading |-> Some(b.data)])]
    IN  [route |-> result.route,
         risk_score |-> result.risk_score,
         risk_band |-> result.risk_band,
         issues |-> result.issues,
         extracted_summary |-> result.extracted_summary,
         debug |-> result.debug,
         readiness |-> compute_readiness(report, issues_for_report)]

\* analyze_documents(invoice, packing_list, bill_of_lading)
analyze_documents(invoice, packing_list, bill_of_lading, ocr_available) ==
    Bind(extract_document_with_debug("invoice", invoice, ocr_available), LAMBDA i :
    Bind(extract_document_with_debug("packing_list", packing_list, ocr_available), LAMBDA p :
    Bind(extract_document_with_debug("bill_of_lading", bill_of_lading, ocr_available), LAMBDA b :
    Bind(run_rules(i.data, p.data, b.data), LAMBDA issues :
        Report(i, p, b, issues)))))

\* the RiskReport that FastAPI validates the result into (response_model):
\* the declared fields, and readiness kept by "extra": "allow"
RiskReport(result) ==
    [route |-> result.route,
     risk_score |-> result.risk_score,
     risk_band |-> result.risk_band,
     issues |-> result.issues,
     extracted_summary |-> result.extracted_summary,
     debug |-> result.debug,
     readiness |-> result.readiness]

\* _badge_color(band)
_badge_color(band) ==
    IF band = "high" THEN "#b91c1c" ELSE IF band = "medium" THEN "#b45309" ELSE "#15803d"

\* (x or "—") of an optional str: None and "" are shown as a dash (None here)
StrOrDash(x) == IF x = None \/ x[1] = << >> THEN None ELSE x

\* (x or "—") of an optional number: None and 0 are shown as a dash
NumOrDash(x) == IF x = None \/ x[1] = 0 THEN None ELSE x

\* (it.get("severity") or "low").upper()
SeverityPill == [critical |-> "CRITICAL", high |-> "HIGH", medium |-> "MEDIUM", low |-> "LOW"]

\* render_report_html(report): the values the page shows, slot by slot; the
\* title, explanation and recommendation of an issue are fixed by its code
render_report_html(result) ==
    LET summary == result.extracted_summary
        inv == Some(summary.invoice)
        pl == Some(summary.packing_list)
        bl == Some(summary.bill_of_lading)
    IN  [page |-> "report",
         score |-> result.risk_score,
         band |-> result.risk_band,
         badge |-> _badge_color(result.risk_band),
         inv_no |-> StrOrDash(_get_path(OrEmpty(inv), "commercial_terms", "invoice_number")),
         incoterm |-> StrOrDash(_get_path(OrEmpty(inv), "commercial_terms", "incoterm")),
         inv_value |-> NumOrDash(_get_path(OrEmpty(inv), "commercial_terms", "invoice_value")),
         inv_qty |-> NumOrDash(_get_path(OrEmpty(inv), "cargo", "total_quantity")),
         pl_qty |-> NumOrDash(_get_path(OrEmpty(pl), "cargo", "total_quantity")),
         pl_gw |-> NumOrDash(_get_path(OrEmpty(pl), "cargo", "total_gross_weight")),
         bl_no |-> StrOrDash(_get_path(OrEmpty(bl), "transport", "bl_number")),
         bl_gw |-> NumOrDash(_get_path(OrEmpty(bl), "cargo", "total_gross_weight")),
         issues |-> [k \in 1..Len(result.issues) |->
                       [pill |-> SeverityPill[result.issues[k].severity],
                        title |-> result.issues[k].code]]]

\* the responses of the handlers
HTMLResponse(content, status_code) == [status_code |-> status_code, kind |-> "html", content |-> content]

RedirectResponse(url, status_code) == [status_code |-> status_code, kind |-> "redirect", content |-> url]

JSONResponse(content) == [status_code |-> 200, kind |-> "json", content |-> content]

\* html_response(report)
html_response(result) == HTMLResponse(render_report_html(result), 200)

\* "<h2>No report yet</h2><p>Run an analysis first.</p>", status_code=200
NoReportYet == HTMLResponse([page |-> "no_report_yet"], 200)

(***************************************************************************)
(* Inputs.                                                                 *)
(***************************************************************************)
\* a dict from field specifications: a key is present with a value, or missing
Absent == [present |-> FALSE, val |-> None]

Has(v) == [present |-> TRUE, val |-> v]

MkDict(fs) == [k \in {y \in DOMAIN fs : fs[y].present} |-> fs[k].val]

SeqsUpTo(S, n) == UNION {[1..k -> S] : k \in 0..n}

\* the lists of issues handed to score_issues
IssueLists == SeqsUpTo({Issue(sev, "X", EmptyDict) : sev \in Severities}, MaxIssues)

FOB == <<"F", "O", "B">>

IN_ == <<"I", "N">>

COO_TEXT == <<"C", "O", "O">>

\* HS codes: n digits, plain, dotted in pairs, padded, broken or lettered
MaxHsDigits == 11

HsDigit(i) == <<"7", "6", "1", "6", "9", "9", "0", "0", "1", "2", "3", "4">>[((i - 1) % 12) + 1]

DigitRun(n) == [i \in 1..n |-> HsDigit(i)]

RECURSIVE Dotted(_)
Dotted(s) == IF Len(s) <= 2 THEN s ELSE SubSeq(s, 1, 2) \o <<".">> \o Dotted(SubSeq(s, 3, Len(s)))

HsSamples ==
    UNION { { DigitRun(n),
              Dotted(DigitRun(n)),
              <<" ">> \o DigitRun(n) \o <<" ", "\n">>,
              <<".", " ">> \o DigitRun(n),
              DigitRun(n) \o <<" ">> \o DigitRun(1),
              DigitRun(n) \o <<"A">>,
              <<".">> \o DigitRun(n) \o <<".">> } : n \in 0..MaxHsDigits }
    \cup { <<"A", "B", "C", "1", "2", "3">> }

ItemOf(hs) == Some([hs_code |-> hs])

ItemsAll == {None, Some(EmptyDict), ItemOf(None)} \cup {ItemOf(Some(h)) : h \in HsSamples}

ItemsCore ==
    {None, ItemOf(None), ItemOf(Some(DigitRun(6))), ItemOf(Some(Dotted(DigitRun(6)))),
     ItemOf(Some(<<"A", "B", "C", "1", "2", "3">>)), ItemOf(Some(<< >>))}

\* the item lists of an invoice: every single item, and the longer lists of core items
ItemLists == {<<it>> : it \in ItemsAll} \cup SeqsUpTo(ItemsCore, MaxItems)

ItemsSpecsAll == {Absent, Has(None)} \cup {Has(Some(l)) : l \in ItemLists}

ItemsSpecsFew ==
    {Absent, Has(Some(<< >>)), Has(Some(<<ItemOf(Some(DigitRun(6)))>>)),
     Has(Some(<<ItemOf(Some(<<"A", "B", "C", "1", "2", "3">>))>>))}

OptStrSpecs(v) == {Absent, Has(None), Has(Some(<< >>)), Has(Some(v))}

\* the commercial_terms section of an invoice
CtSpecsAll ==
    {Absent, Has(None), Has(Some(EmptyDict))}
    \cup { Has(Some(MkDict([incoterm |-> i, country_of_origin |-> c, coo_mention |-> m]))) :
             i \in OptStrSpecs(FOB), c \in OptStrSpecs(IN_), m \in OptStrSpecs(COO_TEXT) }

CtSpecsFew ==
    {Absent,
     Has(Some([incoterm |-> None])),
     Has(Some([incoterm |-> Some(FOB), country_of_origin |-> Some(IN_)]))}

QtySpecsAll == {Absent, Has(None)} \cup {Has(Some(q)) : q \in {0, 5, 950, 1000}}

QtySpecsFew == {Has(None), Has(Some(0)), Has(Some(5))}

GwSpecsAll ==
    {Absent, Has(None)}
    \cup {Has(Some(F(w))) : w \in {0, 980, 1000, 1015, 1020, 1021, 1030, -1000}}
    \cup {Has(Some(1)), Has(Some(100050))}

GwSpecsFew == {Has(None), Has(Some(F(1000))), Has(Some(F(1030)))}

\* the three extraction results handed to run_rules
Invoice(ct, qty, items) ==
    MkDict([doc_type |-> Has(Some(<<"invoice">>)),
            commercial_terms |-> ct,
            cargo |-> Has(Some(MkDict([total_quantity |-> qty, items |-> items])))])

PackingList(qty, gw) ==
    MkDict([doc_type |-> Has(Some(<<"packing_list">>)),
            cargo |-> Has(Some(MkDict([total_quantity |-> qty, total_gross_weight |-> gw])))])

BillOfLading(gw) ==
    MkDict([doc_type |-> Has(Some(<<"bill_of_lading">>)),
            cargo |-> Has(Some(MkDict([total_gross_weight |-> gw])))])

Triple(ct, iq, pq, pw, bw, items) ==
    [inv |-> Invoice(ct, iq, items), pack |-> PackingList(pq, pw), bl |-> BillOfLading(bw)]

\* results with sections that are missing or null
BareTriples ==
    { [inv |-> d1, pack |-> d2, bl |-> d3] :
        d1 \in {EmptyDict, [commercial_terms |-> None, cargo |-> None]},
        d2 \in {EmptyDict, [cargo |-> None], [cargo |-> Some(EmptyDict)]},
        d3 \in {EmptyDict, [cargo |-> None], [cargo |-> Some([total_gross_weight |-> Some(F(1000))])]} }

RuleInputs ==
    { Triple(ct, iq, pq, pw, bw, it) :
        ct \in CtSpecsAll, iq \in {Has(Some(5))}, pq \in {Has(None), Has(Some(0))},
        pw \in {Has(Some(F(1000)))}, bw \in {Has(None), Has(Some(F(1030)))},
        it \in ItemsSpecsFew }
    \cup
    { Triple(ct, iq, pq, pw, bw, it) :
        ct \in CtSpecsFew, iq \in QtySpecsAll, pq \in QtySpecsAll,
        pw \in {Has(Some(F(1000)))}, bw \in {Has(None), Has(Some(F(1030)))},
        it \in {Absent, Has(Some(<<ItemOf(Some(DigitRun(6)))>>))} }
    \cup
    { Triple(ct, iq, pq, pw, bw, it) :
        ct \in CtSpecsFew, iq \in {Has(Some(5))}, pq \in {Has(None), Has(Some(0))},
        pw \in GwSpecsAll, bw \in GwSpecsAll,
        it \in {Absent, Has(Some(<<ItemOf(Some(DigitRun(6)))>>))} }
    \cup
    { Triple(ct, iq, pq, pw, bw, it) :
        ct \in CtSpecsFew, iq \in QtySpecsFew, pq \in QtySpecsFew,
        pw \in GwSpecsFew, bw \in GwSpecsFew, it \in ItemsSpecsFew }
    \cup
    { Triple(ct, iq, pq, pw, bw, it) :
        ct \in {Absent, Has(Some([incoterm |-> Some(FOB), coo_mention |-> Some(COO_TEXT)]))},
        iq \in {Has(Some(5))}, pq \in {Has(Some(5)), Has(Some(0))},
        pw \in {Has(Some(F(1000)))}, bw \in {Has(Some(F(1000))), Has(Some(F(1030)))},
        it \in ItemsSpecsAll }
    \cup BareTriples

\* n characters that are no white space
Filler(n) == [i \in 1..n |-> "x"]

NativePage ==
    {None, Some(<< >>), Some(<<" ", "\t">>), Some(<<"NBSP">>), Some(FOB),
     Some(<<"a", "NBSP", " ", "b", "\n", "\n", "\n", "\n", "c", "\t">>),
     Some(Filler(OcrThreshold - 1)), Some(Filler(OcrThreshold))}

OcrImage ==
    {[raises |-> TRUE, text |-> << >>]}
    \cup {[raises |-> FALSE, text |-> t] :
            t \in {<< >>, <<" ", "\n">>, FOB, <<"o", "c", "r", " ", "t", "e", "x", "t">>,
                   Filler(OcrThreshold)}}

NativeOutcomes ==
    {[raises |-> TRUE, pages |-> << >>]}
    \cup {[raises |-> FALSE, pages |-> ps] : ps \in SeqsUpTo(NativePage, MaxNativePages)}

NativeFew ==
    {[raises |-> TRUE, pages |-> << >>]}
    \cup {[raises |-> FALSE, pages |-> <<pg>>] :
            pg \in {Some(<<" ", "\t">>), Some(FOB), Some(Filler(OcrThreshold - 1)),
                    Some(Filler(OcrThreshold))}}

OkImage(t) == [raises |-> FALSE, text |-> t]

OcrOutcomes ==
    {[raises |-> TRUE, pages |-> << >>]}
    \cup {[raises |-> FALSE, pages |-> ps] : ps \in SeqsUpTo(OcrImage, MaxOcrImages)}
    \cup {[raises |-> FALSE, pages |-> ps] :
            ps \in { <<OkImage(<<"a">>), OkImage(<<"b">>), OkImage(<<"c">>),
                       [raises |-> TRUE, text |-> << >>]>>,
                     <<OkImage(<< >>), OkImage(<< >>), OkImage(<< >>), OkImage(FOB)>>,
                     <<OkImage(<<"a">>), OkImage(<<"b">>),
                       [raises |-> TRUE, text |-> << >>]>> }}

OcrFew ==
    { [raises |-> TRUE, pages |-> << >>],
      [raises |-> FALSE, pages |-> << >>],
      [raises |-> FALSE, pages |-> <<OkImage(FOB)>>],
      [raises |-> FALSE, pages |-> <<OkImage(Filler(OcrThreshold))>>] }

\* the byte buffers handed to get_document_text
Documents ==
    {[native |-> n, ocr |-> o] : n \in NativeOutcomes, o \in OcrFew}
    \cup {[native |-> n, ocr |-> o] : n \in NativeFew, o \in OcrOutcomes}

\* the texts of the sample documents:
\*   invoice_full: 'Invoice No: INV-001\nTotal Amount: USD 5,000.00\nQuantity: 1,000 Pieces\nFOB Mumbai\nExporter: Acme'
\*   invoice_qty_950: "Qty: 950"
\*   packing_full: 'Packing List No: PL-9\nTotal Quantity: 1,000\nNo. of Cartons: 50\nGross Weight: 1,000.00 KG\nNet Weight 950'
\*   packing_short: 'Quantity: 1000\nGross Weight: 980'
\*   bl_full: 'B/L No: MAEU123\nPort of Loading: Nhava Sheva\nPort of Discharge: Jebel Ali\nFreight: Prepaid\nGross Weight 1,030 KGS\nPackages 50'
\*   bl_weight_1015: "Gross Weight: 1015"
\*   bl_weight_1000: "Vessel X\nGross Weight: 1000.0"
SampleTexts ==
    [invoice_full |->
        <<"I", "n", "v", "o", "i", "c", "e", " ", "N", "o", ":", " ", "I", "N", "V", "-", "0", "0", "1", "\n", "T", "o", "t", "a", "l", " ", "A", "m", "o", "u", "n", "t", ":", " ", "U", "S", "D", " ", "5", ",", "0", "0", "0", ".", "0", "0", "\n", "Q", "u", "a", "n", "t", "i", "t", "y", ":", " ", "1", ",", "0", "0", "0", " ", "P", "i", "e", "c", "e", "s", "\n", "F", "O", "B", " ", "M", "u", "m", "b", "a", "i", "\n", "E", "x", "p", "o", "r", "t", "e", "r", ":", " ", "A", "c", "m", "e">>,
     invoice_qty_950 |->
        <<"Q", "t", "y", ":", " ", "9", "5", "0">>,
     packing_full |->
        <<"P", "a", "c", "k", "i", "n", "g", " ", "L", "i", "s", "t", " ", "N", "o", ":", " ", "P", "L", "-", "9", "\n", "T", "o", "t", "a", "l", " ", "Q", "u", "a", "n", "t", "i", "t", "y", ":", " ", "1", ",", "0", "0", "0", "\n", "N", "o", ".", " ", "o", "f", " ", "C", "a", "r", "t", "o", "n", "s", ":", " ", "5", "0", "\n", "G", "r", "o", "s", "s", " ", "W", "e", "i", "g", "h", "t", ":", " ", "1", ",", "0", "0", "0", ".", "0", "0", " ", "K", "G", "\n", "N", "e", "t", " ", "W", "e", "i", "g", "h", "t", " ", "9", "5", "0">>,
     packing_short |->
        <<"Q", "u", "a", "n", "t", "i", "t", "y", ":", " ", "1", "0", "0", "0", "\n", "G", "r", "o", "s", "s", " ", "W", "e", "i", "g", "h", "t", ":", " ", "9", "8", "0">>,
     bl_full |->
        <<"B", "/", "L", " ", "N", "o", ":", " ", "M", "A", "E", "U", "1", "2", "3", "\n", "P", "o", "r", "t", " ", "o", "f", " ", "L", "o", "a", "d", "i", "n", "g", ":", " ", "N", "h", "a", "v", "a", " ", "S", "h", "e", "v", "a", "\n", "P", "o", "r", "t", " ", "o", "f", " ", "D", "i", "s", "c", "h", "a", "r", "g", "e", ":", " ", "J", "e", "b", "e", "l", " ", "A", "l", "i", "\n", "F", "r", "e", "i", "g", "h", "t", ":", " ", "P", "r", "e", "p", "a", "i", "d", "\n", "G", "r", "o", "s", "s", " ", "W", "e", "i", "g", "h", "t", " ", "1", ",", "0", "3", "0", " ", "K", "G", "S", "\n", "P", "a", "c", "k", "a", "g", "e", "s", " ", "5", "0">>,
     bl_weight_1015 |->
        <<"G", "r", "o", "s", "s", " ", "W", "e", "i", "g", "h", "t", ":", " ", "1", "0", "1", "5">>,
     bl_weight_1000 |->
        <<"V", "e", "s", "s", "e", "l", " ", "X", "\n", "G", "r", "o", "s", "s", " ", "W", "e", "i", "g", "h", "t", ":", " ", "1", "0", "0", "0", ".", "0">>]

\* an empty byte buffer: PdfReader raises on it, and the OCR backend raises or
\* finds no page
EmptyBuffers ==
    {[native |-> [raises |-> TRUE, pages |-> << >>], ocr |-> o] :
        o \in {[raises |-> TRUE, pages |-> << >>], [raises |-> FALSE, pages |-> << >>]}}

\* a digital PDF with this text
DigitalPdf(text) ==
    [native |-> [raises |-> FALSE, pages |-> <<Some(text)>>],
     ocr |-> [raises |-> FALSE, pages |-> <<OkImage(<<"?">>)>>]]

\* a scanned PDF: no selectable text, the OCR backend reads this text
ScannedPdf(text) ==
    [native |-> [raises |-> FALSE, pages |-> <<None>>],
     ocr |-> [raises |-> FALSE, pages |-> <<OkImage(text)>>]]

InvoiceFiles ==
    EmptyBuffers
    \cup {DigitalPdf(t) : t \in {SampleTexts.invoice_full, SampleTexts.invoice_qty_950, FOB, <<" ">>}}
    \cup {ScannedPdf(t) : t \in {SampleTexts.invoice_full, << >>}}

PackingListFiles ==
    EmptyBuffers
    \cup {DigitalPdf(t) : t \in {SampleTexts.packing_full, SampleTexts.packing_short}}
    \cup {ScannedPdf(t) : t \in {SampleTexts.packing_short}}

BillOfLadingFiles ==
    EmptyBuffers
    \cup {DigitalPdf(t) : t \in {SampleTexts.bl_full, SampleTexts.bl_weight_1015, SampleTexts.bl_weight_1000}}
    \cup {ScannedPdf(t) : t \in {SampleTexts.bl_full}}

\* the texts handed to extract_fields: each three-letter trade term alone, and
\* texts with labels, blank values, lower case and trailing punctuation
ExtractTexts ==
    { <<"E", "X", "W">>,
      <<"F", "C", "A">>,
      <<"C", "P", "T">>,
      <<"C", "I", "P">>,
      <<"D", "A", "P">>,
      <<"D", "P", "U">>,
      <<"D", "D", "P">>,
      <<"F", "A", "S">>,
      <<"F", "O", "B">>,
      <<"C", "F", "R">>,
      <<"C", "I", "F">> }
    \cup { <<>>,
      <<" ">>,
      <<"f", "o", "b">>,
      <<"F", "O", "B", "X">>,
      <<"C", "I", "F", " ", "F", "O", "B">>,
      <<"T", "e", "r", "m", "s", ":", " ", "F", "A", "S", " ", "M", "u", "m", "b", "a", "i">>,
      <<"E", "x", "p", "o", "r", "t", "e", "r", ":", "\n", "B", "u", "y", "e", "r", ":", " ", "B", "o", "b">>,
      <<"C", "u", "r", "r", "e", "n", "c", "y", ":", " ", "u", "s", "d">>,
      <<"F", "r", "e", "i", "g", "h", "t", ":", " ", "c", "o", "l", "l", "e", "c", "t">>,
      <<"P", "o", "r", "t", " ", "o", "f", " ", "L", "o", "a", "d", "i", "n", "g", ":", " ", " ", "\n", "X">>,
      <<"T", "o", "t", "a", "l", ":", " ", "1", ".", "2", ".", "3">>,
      <<"I", "n", "v", "o", "i", "c", "e", " ", "N", "o", ":", " ", "-", "-">>,
      <<"G", "r", "o", "s", "s", " ", "W", "e", "i", "g", "h", "t", ":", " ", ",">>,
      <<"Q", "t", "y", ":", " ", ",">>,
      <<"S", "h", "i", "p", "p", "e", "r", " ", "-", " ", "A", ".", "\n", "C", "o", "n", "s", "i", "g", "n", "e", "e", ":", " ", "B", "\n", "B", "i", "l", "l", " ", "o", "f", " ", "L", "a", "d", "i", "n", "g", " ", "N", "o", ":", " ", "X", "-", "1", ".">> }
    \cup {SampleTexts[k] : k \in DOMAIN SampleTexts}

\* the longest string of the alphabet handed to the numeric normalizers
MaxNumberLen == 3

\* the strings handed to _to_float and _to_int
NumberStrings ==
    {None}
    \cup {Some(w) : w \in SeqsUpTo({"1", "0", ",", ".", "-", " ", "a"}, MaxNumberLen)}
    \cup { Some(<<"5", ",", "0", "0", "0", ".", "0", "0">>),
         Some(<<"1", ",", "2", "0", "0">>),
         Some(<<"1", ",", "0", "0", "0", " ", "P", "i", "e", "c", "e", "s">>),
         Some(<<"U", "S", "D", " ", "1", "2", ".", "5", "0">>),
         Some(<<"-", "7", ".", "2", "5">>),
         Some(<<"+", "3", ".", "5">>),
         Some(<<"1", ".", "2", ".", "3">>),
         Some(<<"1", "-", "2">>),
         Some(<<"1", "2", ",", "5", "0">>),
         Some(<<"0", ".", "5", " ", "k", "g">>) }

\* the most critical issues in a list handed to compute_readiness
MaxCritical == 3

\* a baseline field that is known, or unknown as None or as a blank str
BaselineValue(field, known, blank) ==
    IF known THEN (IF field.str THEN Some(<<"A">>) ELSE Some(1))
    ELSE IF field.str /\ blank THEN Some(<<" ">>)
    ELSE None

\* the extracted record of a document whose first `missing` baseline fields are
\* unknown
BaselineDoc(doc_type, missing, blank) ==
    LET fields == BASELINE_REQUIRED_FIELDS[doc_type]
        at(section, key) == CHOOSE k \in 1..Len(fields) :
                                fields[k].section = section /\ fields[k].key = key
    IN  [section \in {fields[k].section : k \in 1..Len(fields)} |->
            Some([key \in {fields[k].key : k \in {j \in 1..Len(fields) : fields[j].section = section}} |->
                    BaselineValue(fields[at(section, key)], at(section, key) > missing, blank)])]

\* a report with these debug records, and extracted records with this many
\* unknown baseline fields per document
ReadinessReport(debug, missing, blank) ==
    [debug |-> debug,
     extracted_summary |-> Some([d \in {"invoice", "packing_list", "bill_of_lading"} |->
                                    Some(BaselineDoc(d, missing[d], blank))])]

\* k critical issues followed by one of high severity, as model_dump gives them
IssuesWithCritical(k) ==
    [j \in 1..(k + 1) |-> model_dump(Issue(IF j <= k THEN "critical" ELSE "high", "X", EmptyDict))]

\* the numbers of unknown baseline fields per document
MissingCounts ==
    [invoice : 0..Len(BASELINE_REQUIRED_FIELDS.invoice),
     packing_list : 0..Len(BASELINE_REQUIRED_FIELDS.packing_list),
     bill_of_lading : 0..Len(BASELINE_REQUIRED_FIELDS.bill_of_lading)]

NoneMissing == [invoice |-> 0, packing_list |-> 0, bill_of_lading |-> 0]

\* the (report, issues) pairs handed to compute_readiness: a sweep of one
\* confidence over 0.00..1.00, a sweep of the unknown baseline fields, and
\* three debug records with and without confidence_overall under 0..MaxCritical
\* critical issues.  round(sum / len, 2) meets no tie with one or three records.
ReadinessInputs ==
    { [report |-> ReadinessReport(Some([invoice |-> [confidence_overall |-> Some(h)]]),
                                  [NoneMissing EXCEPT !.invoice = m], FALSE),
       issues |-> IssuesWithCritical(k)] : h \in 0..100, m \in 0..1, k \in 0..1 }
    \cup
    { [report |-> ReadinessReport(Some([d \in {"invoice", "packing_list", "bill_of_lading"} |->
                                           [confidence_overall |-> Some(100)]]), missing, blank),
       issues |-> IssuesWithCritical(k)] : missing \in MissingCounts, blank \in BOOLEAN, k \in 0..1 }
    \cup
    { [report |-> ReadinessReport(Some([invoice |-> MkDict([confidence_overall |-> i]),
                                        packing_list |-> MkDict([confidence_overall |-> pl]),
                                        bill_of_lading |-> MkDict([confidence_overall |-> b])]),
                                  [NoneMissing EXCEPT !.bill_of_lading = m], FALSE),
       issues |-> IssuesWithCritical(k)] :
          i \in {Absent, Has(None), Has(Some(85)), Has(Some(100))},
          pl \in {Absent, Has(Some(0)), Has(Some(70)), Has(Some(100))},
          b \in {Absent, Has(Some(58)), Has(Some(100))},
          m \in 0..1, k \in 0..MaxCritical }
    \cup
    { [report |-> [debug |-> d, extracted_summary |-> e], issues |-> IssuesWithCritical(k)] :
          d \in {None, Some(EmptyDict)}, e \in {None, Some(EmptyDict)}, k \in 0..1 }

\* the clients of the service, each with at most one request in flight
Clients == {"c1", "c2"}

\* the three files a client uploads in one POST
Uploads ==
    { [invoice |-> DigitalPdf(SampleTexts.invoice_full),
       packing_list |-> DigitalPdf(SampleTexts.packing_full),
       bill_of_lading |-> DigitalPdf(SampleTexts.bl_full)],
      [invoice |-> DigitalPdf(SampleTexts.invoice_qty_950),
       packing_list |-> DigitalPdf(SampleTexts.packing_short),
       bill_of_lading |-> DigitalPdf(SampleTexts.bl_weight_1015)] }

\* a client before its first request
NewClient == [pc |-> "idle", upload |-> None, response |-> None, redirect |-> "none"]

(***************************************************************************)
(* The calls.                                                              *)
(***************************************************************************)
\* OCR_AVAILABLE is set once, when the module is imported
Init ==
    /\ op = "idle"
    /\ args = << >>
    /\ ret = << >>
    /\ OCR_AVAILABLE \in BOOLEAN
    /\ LAST_REPORT = None
    /\ clients = [c \in Clients |-> NewClient]

\* score_issues(issues)
ScoreIssues ==
    /\ op = "idle"
    /\ \E issues \in IssueLists :
         /\ op' = "score_issues"
         /\ args' = issues
         /\ ret' = score_issues(issues)
    /\ UNCHANGED <<OCR_AVAILABLE, LAST_REPORT, clients>>

\* risk_band(score)
RiskBand ==
    /\ op = "idle"
    /\ \E score \in 0..100 :
         /\ op' = "risk_band"
         /\ args' = score
         /\ ret' = risk_band(score)
    /\ UNCHANGED <<OCR_AVAILABLE, LAST_REPORT, clients>>

\* run_rules(inv, pack, bl)
RunRules ==
    /\ op = "idle"
    /\ \E t \in RuleInputs :
         /\ op' = "run_rules"
         /\ args' = t
         /\ ret' = run_rules(t.inv, t.pack, t.bl)
    /\ UNCHANGED <<OCR_AVAILABLE, LAST_REPORT, clients>>

\* get_document_text(file_bytes)
GetDocumentText ==
    /\ op = "idle"
    /\ \E file_bytes \in Documents :
         /\ op' = "get_document_text"
         /\ args' = file_bytes
         /\ ret' = get_document_text(file_bytes, OCR_AVAILABLE)
    /\ UNCHANGED <<OCR_AVAILABLE, LAST_REPORT, clients>>

NextScore == ScoreIssues \/ RiskBand

SpecScore == Init /\ [][NextScore]_vars

NextRules == RunRules

SpecRules == Init /\ [][NextRules]_vars

\* analyze_documents(invoice, packing_list, bill_of_lading)
AnalyzeDocuments ==
    /\ op = "idle"
    /\ \E invoice \in InvoiceFiles, packing_list \in PackingListFiles,
          bill_of_lading \in BillOfLadingFiles :
         /\ op' = "analyze_documents"
         /\ args' = [invoice |-> invoice, packing_list |-> packing_list,
                     bill_of_lading |-> bill_of_lading]
         /\ ret' = analyze_documents(invoice, packing_list, bill_of_lading, OCR_AVAILABLE)
    /\ UNCHANGED <<OCR_AVAILABLE, LAST_REPORT, clients>>

\* extract_fields(doc_type, text)
ExtractFields ==
    /\ op = "idle"
    /\ \E k \in DOMAIN DocTypes, text \in ExtractTexts :
         /\ op' = "extract_fields"
         /\ args' = [doc_type |-> DocTypes[k], text |-> text]
         /\ ret' = extract_fields(DocTypes[k], text)
    /\ UNCHANGED <<OCR_AVAILABLE, LAST_REPORT, clients>>

\* _to_float(s)
ToFloat ==
    /\ op = "idle"
    /\ \E s \in NumberStrings :
         /\ op' = "_to_float"
         /\ args' = s
         /\ ret' = _to_float(s)
    /\ UNCHANGED <<OCR_AVAILABLE, LAST_REPORT, clients>>

\* _to_int(s)
ToInt ==
    /\ op = "idle"
    /\ \E s \in NumberStrings :
         /\ op' = "_to_int"
         /\ args' = s
         /\ ret' = _to_int(s)
    /\ UNCHANGED <<OCR_AVAILABLE, LAST_REPORT, clients>>

NextExtract == ExtractFields \/ ToFloat \/ ToInt

SpecExtract == Init /\ [][NextExtract]_vars

\* compute_readiness(report, issues)
ComputeReadiness ==
    /\ op = "idle"
    /\ \E input \in ReadinessInputs :
         /\ op' = "compute_readiness"
         /\ args' = input
         /\ ret' = compute_readiness(input.report, input.issues)
    /\ UNCHANGED <<OCR_AVAILABLE, LAST_REPORT, clients>>

NextReadiness == ComputeReadiness

SpecReadiness == Init /\ [][NextReadiness]_vars

(***************************************************************************)
(* The service (main.py).  LAST_REPORT is the module global; a client is   *)
(* where its request stands: pc is the handler in flight for it, upload    *)
(* the files of its last POST, response the last response it received,     *)
(* redirect whether it has received a 303 it has yet to follow, or has    *)
(* followed one with its last request.  The async handlers give way to    *)
(* other requests at `await ....read()` and run from the last read to     *)
(* their return without a break; the sync handlers run on worker threads. *)
(***************************************************************************)
\* analyze_documents on each upload, with and without the OCR backend
Analyses ==
    [u \in Uploads, ocr_available \in BOOLEAN |->
        analyze_documents(u.invoice, u.packing_list, u.bill_of_lading, ocr_available)]

\* analyze_documents on the files of the client's POST
OwnReport(c) == Analyses[clients[c].upload[1], OCR_AVAILABLE]

\* POST /v1/analyze arrives: analyze runs up to its reads of the upload
PostAnalyze(c) ==
    /\ clients[c].pc = "idle"
    /\ clients[c].redirect # "received"
    /\ \E upload \in Uploads :
         clients' = [clients EXCEPT ![c] = [pc |-> "analyze", upload |-> Some(upload),
                                            response |-> None, redirect |-> "none"]]
    /\ UNCHANGED <<op, args, ret, OCR_AVAILABLE, LAST_REPORT>>

\* POST /v1/analyze-and-view arrives: analyze_and_view runs up to its reads
PostAnalyzeAndView(c) ==
    /\ clients[c].pc = "idle"
    /\ clients[c].redirect # "received"
    /\ \E upload \in Uploads :
         clients' = [clients EXCEPT ![c] = [pc |-> "analyze_and_view", upload |-> Some(upload),
                                            response |-> None, redirect |-> "none"]]
    /\ UNCHANGED <<op, args, ret, OCR_AVAILABLE, LAST_REPORT>>

\* the first report stored is kept and the later ones are dropped
store_result_first_writer(c) ==
    /\ clients[c].pc \in {"analyze", "analyze_and_view"}
    /\ \E result \in {OwnReport(c)} :
           /\ LAST_REPORT' = IF LAST_REPORT = None THEN Some(result) ELSE LAST_REPORT
           /\ clients' = [clients EXCEPT
                            ![c].pc = "idle",
                            ![c].response = IF clients[c].pc = "analyze"
                                            THEN Some(JSONResponse(RiskReport(result)))
                                            ELSE Some(RedirectResponse("/report", 303)),
                            ![c].redirect = IF clients[c].pc = "analyze"
                                            THEN "none" ELSE "received"]
    /\ UNCHANGED <<op, args, ret, OCR_AVAILABLE>>

\* analyze and analyze_and_view from their last read to their return:
\*   result = analyze_documents(...); global LAST_REPORT; LAST_REPORT = result
\* and then `return result` (validated into a RiskReport) in analyze,
\* `return RedirectResponse(url="/report", status_code=303)` in analyze_and_view
store_result(c) ==
    /\ clients[c].pc \in {"analyze", "analyze_and_view"}
    /\ \E result \in {OwnReport(c)} :
           /\ LAST_REPORT' = Some(result)
           /\ clients' = [clients EXCEPT
                            ![c].pc = "idle",
                            ![c].response = IF clients[c].pc = "analyze"
                                            THEN Some(JSONResponse(RiskReport(result)))
                                            ELSE Some(RedirectResponse("/report", 303)),
                            ![c].redirect = IF clients[c].pc = "analyze"
                                            THEN "none" ELSE "received"]
    /\ UNCHANGED <<op, args, ret, OCR_AVAILABLE>>

\* GET /report arrives, on the client's own accord or following its 303:
\* `if not LAST_REPORT` answers with the placeholder, or goes on to render
GetReport(c) ==
    /\ clients[c].pc = "idle"
    /\ IF LAST_REPORT = None
       THEN clients' = [clients EXCEPT ![c].response = Some(NoReportYet),
                                       ![c].redirect = "none"]
       ELSE clients' = [clients EXCEPT ![c].pc = "report", ![c].response = None,
                                       ![c].redirect = IF clients[c].redirect = "received"
                                                       THEN "followed" ELSE "none"]
    /\ UNCHANGED <<op, args, ret, OCR_AVAILABLE, LAST_REPORT>>

\* report: return html_response(LAST_REPORT), the second read of the global
report_render(c) ==
    /\ clients[c].pc = "report"
    /\ clients' = [clients EXCEPT ![c].pc = "idle",
                                   ![c].response = Some(html_response(LAST_REPORT[1]))]
    /\ UNCHANGED <<op, args, ret, OCR_AVAILABLE, LAST_REPORT>>

\* GET /analyze: analyze_ui returns the upload form
analyze_ui(c) ==
    /\ clients[c].pc = "idle"
    /\ clients[c].redirect # "received"
    /\ clients' = [clients EXCEPT ![c].response = Some(HTMLResponse([page |-> "analyze_ui"], 200)),
                                   ![c].redirect = "none"]
    /\ UNCHANGED <<op, args, ret, OCR_AVAILABLE, LAST_REPORT>>

\* GET /: home returns the landing page
home(c) ==
    /\ clients[c].pc = "idle"
    /\ clients[c].redirect # "received"
    /\ clients' = [clients EXCEPT ![c].response = Some(HTMLResponse([page |-> "home"], 200)),
                                   ![c].redirect = "none"]
    /\ UNCHANGED <<op, args, ret, OCR_AVAILABLE, LAST_REPORT>>

NextService ==
    \E c \in Clients :
        \/ PostAnalyze(c) \/ PostAnalyzeAndView(c) \/ store_result(c)
        \/ GetReport(c) \/ report_render(c) \/ analyze_ui(c) \/ home(c)

SpecService == Init /\ [][NextService]_vars

NextText == GetDocumentText

NextReport == RunRules \/ AnalyzeDocuments

SpecReport == Init /\ [][NextReport]_vars

SpecText == Init /\ [][NextText]_vars

Next ==
    \/ ScoreIssues \/ RiskBand \/ RunRules \/ GetDocumentText \/ AnalyzeDocuments
    \/ ExtractFields \/ ToFloat \/ ToInt \/ ComputeReadiness
    \/ NextService

Spec == Init /\ [][Next]_vars

(***************************************************************************)
(* Properties.                                                             *)
(***************************************************************************)
CountSeverity(issues, sev) == Len(SelectSeq(issues, LAMBDA i : i.severity = sev))

CountCode(issues, code) == Len(SelectSeq(issues, LAMBDA i : i.code = code))

Emits(issues, code) == CountCode(issues, code) >= 1

\* every issue of the list with this code has this severity
AllOfCode(issues, code, sev) ==
    \A k \in 1..Len(issues) : issues[k].code = code => issues[k].severity = sev

\* the value of doc[section][key], None when the section or the key is missing or null
Field(doc, section, key) ==
    IF section \in DOMAIN doc /\ doc[section] # None
    THEN (IF key \in DOMAIN doc[section][1] THEN doc[section][1][key] ELSE None)
    ELSE None

\* C1: score_issues returns min(100, 30*#critical + 15*#high + 5*#medium + #low),
\* an integer in 0..100 however many issues are passed, and 0 for the empty list.
C1_ScoreIsClampedSum ==
    op = "score_issues" =>
        /\ ret = Min2(100, 30 * CountSeverity(args, "critical") + 15 * CountSeverity(args, "high")
                           + 5 * CountSeverity(args, "medium") + CountSeverity(args, "low"))
        /\ ret \in 0..100
        /\ (args = << >> => ret = 0)

\* four critical issues sum to 120 and score 100
C1_Witness ==
    /\ op = "score_issues"
    /\ Len(args) = 4
    /\ CountSeverity(args, "critical") = 4
    /\ ret = 100

BandRank(b) == CASE b = "low" -> 0 [] b = "medium" -> 1 [] b = "high" -> 2

SeveritiesOf(issues) == [k \in 1..Len(issues) |-> issues[k].severity]

\* C2: risk_band(score) is low iff score <= 20, medium iff 21 <= score <= 50, high
\* iff score > 50; the band never decreases when the score increases; the list
\* [critical, high] scores 45 and is medium, three critical issues score 90 and are high.
C2_BandThresholds ==
    /\ op = "risk_band" =>
        /\ ret = "low" <=> args <= 20
        /\ ret = "medium" <=> (21 <= args /\ args <= 50)
        /\ ret = "high" <=> args > 50
        /\ \A lower \in 0..args : BandRank(risk_band(lower)) <= BandRank(ret)
    /\ (op = "score_issues" /\ SeveritiesOf(args) = <<"critical", "high">>) =>
        ret = 45 /\ risk_band(ret) = "medium"
    /\ (op = "score_issues" /\ SeveritiesOf(args) = <<"critical", "critical", "critical">>) =>
        ret = 90 /\ risk_band(ret) = "high"

\* the upper edge of the medium band
C2_Witness == op = "risk_band" /\ args = 50 /\ ret = "medium"

\* C4: run_rules emits exactly one QTY_MISMATCH_INV_PACK issue, critical, iff the
\* invoice and packing-list total_quantity are both known and unequal, and none
\* otherwise; a quantity of 0 is known.
C4_QuantityMismatch ==
    op = "run_rules" =>
        LET iq == Field(args.inv, "cargo", "total_quantity")
            pq == Field(args.pack, "cargo", "total_quantity")
        IN  /\ CountCode(ret, "QTY_MISMATCH_INV_PACK")
                 = (IF iq # None /\ pq # None /\ iq[1] # pq[1] THEN 1 ELSE 0)
            /\ AllOfCode(ret, "QTY_MISMATCH_INV_PACK", "critical")

\* invoice quantity 0 against packing-list quantity 5 fires
C4_Witness ==
    /\ op = "run_rules"
    /\ Field(args.inv, "cargo", "total_quantity") = Some(0)
    /\ Field(args.pack, "cargo", "total_quantity") = Some(5)
    /\ CountCode(ret, "QTY_MISMATCH_INV_PACK") = 1

\* the same call with the two gross weights exchanged
SwapWeights(t) ==
    [inv |-> t.inv,
     pack |-> [cargo |-> Some([total_gross_weight |-> Field(t.bl, "cargo", "total_gross_weight")])],
     bl |-> [cargo |-> Some([total_gross_weight |-> Field(t.pack, "cargo", "total_gross_weight")])]]

GwPair(t, a, b) ==
    /\ Field(t.pack, "cargo", "total_gross_weight") = Some(F(a))
    /\ Field(t.bl, "cargo", "total_gross_weight") = Some(F(b))

\* C5: run_rules emits GW_MISMATCH_PACK_BL (critical) iff both gross weights are
\* known and |a-b| / max(|a|,|b|,eps) * 100 > 2 strictly: 1000 vs 1015 nothing,
\* 1000 vs 1030 the issue, exactly 2% (980 vs 1000) nothing, both 0 nothing, an
\* unknown weight nothing; the outcome is symmetric in the two weights.
C5_GrossWeightTolerance ==
    op = "run_rules" =>
        LET pw == Field(args.pack, "cargo", "total_gross_weight")
            bw == Field(args.bl, "cargo", "total_gross_weight")
            sw == SwapWeights(args)
        IN  /\ CountCode(ret, "GW_MISMATCH_PACK_BL")
                 = (IF /\ pw # None
                       /\ bw # None
                       /\ Abs(pw[1] - bw[1]) * 100 > 2 * Max2(Abs(pw[1]), Abs(bw[1]))
                    THEN 1 ELSE 0)
            /\ AllOfCode(ret, "GW_MISMATCH_PACK_BL", "critical")
            /\ GwPair(args, 1000, 1015) => ~Emits(ret, "GW_MISMATCH_PACK_BL")
            /\ GwPair(args, 1000, 1030) => Emits(ret, "GW_MISMATCH_PACK_BL")
            /\ GwPair(args, 980, 1000) => ~Emits(ret, "GW_MISMATCH_PACK_BL")
            /\ GwPair(args, 0, 0) => ~Emits(ret, "GW_MISMATCH_PACK_BL")
            /\ Emits(run_rules(sw.inv, sw.pack, sw.bl), "GW_MISMATCH_PACK_BL")
                 <=> Emits(ret, "GW_MISMATCH_PACK_BL")

\* a difference of exactly 2% stays silent
C5_Witness ==
    /\ op = "run_rules"
    /\ GwPair(args, 980, 1000)
    /\ ~Emits(ret, "GW_MISMATCH_PACK_BL")

\* a code is valid iff, trimmed and with its periods removed, it is 6 to 10 digits
HsCodeValid(hs) ==
    /\ hs # None
    /\ LET h == SelectSeq(Strip(hs[1]), LAMBDA c : c # ".")
       IN  Len(h) \in 6..10 /\ \A k \in 1..Len(h) : h[k] \in Digits

ItemHs(it) == IF it # None /\ "hs_code" \in DOMAIN it[1] THEN it[1].hs_code ELSE None

SingleItem(t, hs) == Field(t.inv, "cargo", "items") = Some(<<ItemOf(hs)>>)

\* C6: run_rules emits NO_ITEMS_EXTRACTED (high) iff the invoice item list is
\* empty or absent, HS_ALL_MISSING_OR_INVALID (high) iff the list is non-empty
\* and every item's hs_code is invalid, nothing when one item has a valid code;
\* '761699' and '76.16.99' are valid, 'ABC123', '' and null are not; the two
\* issues are never emitted together.
C6_ItemLevelOutcome ==
    op = "run_rules" =>
        LET f == Field(args.inv, "cargo", "items")
            items == IF f = None THEN << >> ELSE f[1]
            allInvalid == \A k \in 1..Len(items) : ~HsCodeValid(ItemHs(items[k]))
        IN  /\ CountCode(ret, "NO_ITEMS_EXTRACTED") = (IF items = << >> THEN 1 ELSE 0)
            /\ CountCode(ret, "HS_ALL_MISSING_OR_INVALID")
                 = (IF items # << >> /\ allInvalid THEN 1 ELSE 0)
            /\ AllOfCode(ret, "NO_ITEMS_EXTRACTED", "high")
            /\ AllOfCode(ret, "HS_ALL_MISSING_OR_INVALID", "high")
            /\ ~(Emits(ret, "NO_ITEMS_EXTRACTED") /\ Emits(ret, "HS_ALL_MISSING_OR_INVALID"))
            /\ SingleItem(args, Some(<<"7", "6", "1", "6", "9", "9">>))
                 => ~Emits(ret, "HS_ALL_MISSING_OR_INVALID")
            /\ SingleItem(args, Some(<<"7", "6", ".", "1", "6", ".", "9", "9">>))
                 => ~Emits(ret, "HS_ALL_MISSING_OR_INVALID")
            /\ SingleItem(args, Some(<<"A", "B", "C", "1", "2", "3">>))
                 => Emits(ret, "HS_ALL_MISSING_OR_INVALID")
            /\ SingleItem(args, Some(<< >>)) => Emits(ret, "HS_ALL_MISSING_OR_INVALID")
            /\ SingleItem(args, None) => Emits(ret, "HS_ALL_MISSING_OR_INVALID")

\* two items, one invalid and one valid only after trimming: nothing is flagged
C6_Witness ==
    /\ op = "run_rules"
    /\ LET f == Field(args.inv, "cargo", "items")
       IN  /\ f # None
           /\ Len(f[1]) = 2
           /\ ~HsCodeValid(ItemHs(f[1][1]))
           /\ HsCodeValid(ItemHs(f[1][2]))
    /\ ~Emits(ret, "HS_ALL_MISSING_OR_INVALID")
    /\ ~Emits(ret, "NO_ITEMS_EXTRACTED")

\* an optional str that is null or empty
Unknown(x) == x = None \/ x[1] = << >>

CtSpecOf(t) ==
    IF "commercial_terms" \in DOMAIN t.inv THEN Has(t.inv.commercial_terms) ELSE Absent

\* C7: run_rules returns for every input triple, all-null and missing sections
\* included, and each rule fires iff its own condition holds whatever the other
\* rules do: INCOTERM_MISSING (critical) iff the invoice incoterm is unknown,
\* COO_MISSING (critical) iff country_of_origin and coo_mention are both absent;
\* changing only quantity, weight or item fields never changes these two.
C7_RulesIndependent ==
    op = "run_rules" =>
        LET coo == Field(args.inv, "commercial_terms", "country_of_origin")
            mention == Field(args.inv, "commercial_terms", "coo_mention")
            incoterm == Field(args.inv, "commercial_terms", "incoterm")
        IN  /\ \A k \in 1..Len(ret) : ret[k].severity \in Severities
            /\ CountCode(ret, "COO_MISSING") = (IF Unknown(coo) /\ Unknown(mention) THEN 1 ELSE 0)
            /\ CountCode(ret, "INCOTERM_MISSING") = (IF Unknown(incoterm) THEN 1 ELSE 0)
            /\ AllOfCode(ret, "COO_MISSING", "critical")
            /\ AllOfCode(ret, "INCOTERM_MISSING", "critical")
            /\ \A iq \in QtySpecsFew, pq \in {Has(Some(5))}, pw \in GwSpecsFew,
                  bw \in {Has(Some(F(1000)))}, it \in ItemsSpecsFew :
                 LET t == Triple(CtSpecOf(args), iq, pq, pw, bw, it)
                     other == run_rules(t.inv, t.pack, t.bl)
                 IN  /\ Emits(other, "COO_MISSING") <=> Emits(ret, "COO_MISSING")
                     /\ Emits(other, "INCOTERM_MISSING") <=> Emits(ret, "INCOTERM_MISSING")

\* every section null: the three completeness issues fire together
C7_Witness ==
    /\ op = "run_rules"
    /\ args.inv = [commercial_terms |-> None, cargo |-> None]
    /\ Emits(ret, "COO_MISSING")
    /\ Emits(ret, "INCOTERM_MISSING")
    /\ Emits(ret, "NO_ITEMS_EXTRACTED")

\* the number of input fields the rule of this code reads
FieldsRead(code) ==
    CASE code = "COO_MISSING" -> 2
      [] code = "INCOTERM_MISSING" -> 1
      [] code = "QTY_MISMATCH_INV_PACK" -> 2
      [] code = "GW_MISMATCH_PACK_BL" -> 2
      [] code = "HS_ALL_MISSING_OR_INVALID" -> 1
      [] code = "NO_ITEMS_EXTRACTED" -> 1

\* C8: every issue emitted by run_rules carries an evidence mapping with the
\* field values its rule inspected (both quantities, both weights, the invoice
\* incoterm, the item list or count); no evidence mapping omits a field read.
C8_EvidenceComplete ==
    op = "run_rules" =>
        \A k \in 1..Len(ret) :
            LET ev == ret[k].evidence
                code == ret[k].code
            IN  /\ Cardinality(DOMAIN ev) >= FieldsRead(code)
                /\ code = "QTY_MISMATCH_INV_PACK" =>
                     /\ ev.invoice_total_quantity = F(Field(args.inv, "cargo", "total_quantity")[1])
                     /\ ev.packing_total_quantity = F(Field(args.pack, "cargo", "total_quantity")[1])
                /\ code = "GW_MISMATCH_PACK_BL" =>
                     /\ ev.packing_gross_weight = Field(args.pack, "cargo", "total_gross_weight")[1]
                     /\ ev.bl_gross_weight = Field(args.bl, "cargo", "total_gross_weight")[1]
                /\ code = "COO_MISSING" =>
                     /\ ev.invoice_country_of_origin
                          = Field(args.inv, "commercial_terms", "country_of_origin")
                     /\ ev.invoice_coo_mention = Field(args.inv, "commercial_terms", "coo_mention")

\* the part of C8 that the rules with evidence satisfy
C8_EvidenceOfCheckedRules ==
    op = "run_rules" =>
        \A k \in 1..Len(ret) :
            ret[k].code \notin {"INCOTERM_MISSING", "NO_ITEMS_EXTRACTED"} =>
                Cardinality(DOMAIN ret[k].evidence) >= FieldsRead(ret[k].code)

\* C9: for every byte input and every outcome of the native extractor and the
\* OCR backend (success, exception, backend absent), get_document_text returns a
\* (text, method) pair without raising, and method is 'empty' iff the text is
\* the empty string; method 'ocr' never comes with an empty text.
C9_TextAcquisitionTotal ==
    op = "get_document_text" =>
        /\ ~ret.raised
        /\ ret.val.method \in {"pdf_text", "ocr", "empty"}
        /\ ret.val.method = "empty" <=> ret.val.text = << >>
        /\ ret.val.method = "ocr" => ret.val.text # << >>

\* the native extractor raises and the OCR backend yields nothing longer
C9_Witness ==
    /\ op = "get_document_text"
    /\ OCR_AVAILABLE
    /\ args.native.raises
    /\ ~args.ocr.raises
    /\ ret = Returned([text |-> << >>, method |-> "empty"])

\* the place of each code in the order run_rules declares its rules; the two
\* item-level outcomes share the last place
DeclarationRank(code) ==
    CASE code = "COO_MISSING" -> 1
      [] code = "INCOTERM_MISSING" -> 2
      [] code = "QTY_MISMATCH_INV_PACK" -> 3
      [] code = "GW_MISMATCH_PACK_BL" -> 4
      [] code = "HS_ALL_MISSING_OR_INVALID" -> 5
      [] code = "NO_ITEMS_EXTRACTED" -> 5

\* the codes follow the declaration order and none of them repeats
InDeclarationOrder(issues) ==
    \A j, k \in 1..Len(issues) :
        j < k => DeclarationRank(issues[j].code) < DeclarationRank(issues[k].code)

\* C3: run_rules returns its issues in the declaration order COO_MISSING,
\* INCOTERM_MISSING, QTY_MISMATCH_INV_PACK, GW_MISMATCH_PACK_BL, then
\* HS_ALL_MISSING_OR_INVALID or NO_ITEMS_EXTRACTED, each code at most once, and
\* the issues list of the report of analyze_documents holds the issues the
\* engine emits for the extracted records, in that same order.
C3_EmissionOrder ==
    /\ op = "run_rules" => InDeclarationOrder(ret)
    /\ op = "analyze_documents" =>
          LET summary == ret.extracted_summary
              emitted == run_rules(summary.invoice, summary.packing_list, summary.bill_of_lading)
          IN  /\ InDeclarationOrder(ret.issues)
              /\ Len(ret.issues) = Len(emitted)
              /\ \A k \in 1..Len(emitted) :
                    /\ ret.issues[k].code = emitted[k].code
                    /\ ret.issues[k].severity = emitted[k].severity
                    /\ ret.issues[k].evidence = emitted[k].evidence

\* a report with five issues, a high-severity one after four critical ones
C3_Witness ==
    /\ op = "analyze_documents"
    /\ Len(ret.issues) = 5
    /\ ret.issues[1].code = "COO_MISSING"
    /\ ret.issues[4].code = "GW_MISMATCH_PACK_BL"
    /\ ret.issues[5].code = "NO_ITEMS_EXTRACTED"
    /\ ret.issues[5].severity = "high"

\* the sections of an extracted record that hold scalar fields (and, in cargo,
\* the items list)
ScalarSections == {"commercial_terms", "cargo", "transport"}

\* every scalar field of the sections is None
SectionScalarsUnknown(doc) ==
    \A section \in ScalarSections :
        LET d == OrEmpty(Get(doc, section))
        IN  \A key \in DOMAIN d \ {"items"} : d[key] = None

\* no party of the record has a known field
PartiesUnknown(doc) ==
    LET parties == OrEmpty(Get(doc, "parties"))
    IN  \A who \in DOMAIN parties :
            LET party == OrEmpty(parties[who])
            IN  \A key \in DOMAIN party : party[key] = None

\* the items list is there and empty
ItemsEmpty(doc) == Field(doc, "cargo", "items") = Some(<< >>)

\* the three calls were made on empty byte buffers
AllEmptyBuffers ==
    /\ op = "analyze_documents"
    /\ args.invoice \in EmptyBuffers
    /\ args.packing_list \in EmptyBuffers
    /\ args.bill_of_lading \in EmptyBuffers

\* the report of three unreadable documents, apart from its scalar fields
EmptyReport ==
    /\ DOMAIN ret = {"route", "risk_score", "risk_band", "issues", "extracted_summary",
                     "debug", "readiness"}
    /\ Emits(ret.issues, "COO_MISSING")
    /\ Emits(ret.issues, "INCOTERM_MISSING")
    /\ Emits(ret.issues, "NO_ITEMS_EXTRACTED")
    /\ ret.risk_band \in {"high", "medium"}
    /\ \A d \in DOMAIN ret.extracted_summary : ItemsEmpty(ret.extracted_summary[d])

\* C10 as stated: on three empty byte buffers analyze_documents returns a
\* report with COO_MISSING, INCOTERM_MISSING and NO_ITEMS_EXTRACTED, a risk
\* band of high or medium, every items list empty, and every scalar field of
\* the three extracted records unknown, doc_type among them.
C10_EmptyBuffersAllUnknown ==
    AllEmptyBuffers =>
        /\ EmptyReport
        /\ \A d \in DOMAIN ret.extracted_summary :
              LET doc == ret.extracted_summary[d]
              IN  /\ SectionScalarsUnknown(doc)
                  /\ PartiesUnknown(doc)
                  /\ Get(doc, "doc_type") = None

\* C10, amended: on three empty byte buffers analyze_documents returns a report
\* with COO_MISSING, INCOTERM_MISSING and NO_ITEMS_EXTRACTED, a risk band of
\* high or medium, every items list empty, and every scalar field of the three
\* extracted records other than doc_type unknown; doc_type names the document
\* type the record was extracted as.
C10_EmptyBuffersUnknownButDocType ==
    AllEmptyBuffers =>
        /\ EmptyReport
        /\ \A d \in DOMAIN ret.extracted_summary :
              LET doc == ret.extracted_summary[d]
              IN  /\ SectionScalarsUnknown(doc)
                  /\ PartiesUnknown(doc)
                  /\ Get(doc, "doc_type") = Some(d)

\* three empty buffers analysed: no text from any of them, 75 points
C10_Witness ==
    /\ AllEmptyBuffers
    /\ \A d \in DOMAIN ret.debug :
          /\ ret.debug[d].extraction_method = "empty"
          /\ ret.debug[d].text_chars = 0
    /\ Len(ret.issues) = 3
    /\ ret.risk_score = 75
    /\ ret.risk_band = "high"

\* the leaf fields of an extracted record that hold a str
StringFields ==
    {"invoice_number", "incoterm", "currency", "packing_list_number", "freight_terms",
     "bl_number", "port_of_loading", "port_of_discharge", "mode"}

\* the value occurs in the text, letter case apart
OccursIn(v, text) ==
    \E i \in 1..(Len(text) - Len(v) + 1) :
        \A k \in 1..Len(v) : Upper(text[i + k - 1]) = Upper(v[k])

\* every str leaf of the sections is None or a non-empty piece of the text (the
\* mode is None or the inferred SEA), never "" or a stand-in
LeavesNullOrFound(doc, text) ==
    \A section \in ScalarSections :
        LET d == OrEmpty(Get(doc, section))
        IN  \A key \in DOMAIN d \cap StringFields :
                \/ d[key] = None
                \/ /\ d[key][1] # << >>
                   /\ IF key = "mode" THEN d[key][1] = <<"S", "E", "A">>
                      ELSE OccursIn(d[key][1], text)

\* every party has a name key, None when no label matched
PartiesNamedOrNull(doc, text) ==
    LET parties == OrEmpty(Get(doc, "parties"))
    IN  \A who \in DOMAIN parties :
            /\ parties[who] # None
            /\ "name" \in DOMAIN parties[who][1]
            /\ LET name == parties[who][1]["name"]
               IN  name = None \/ (name[1] # << >> /\ OccursIn(name[1], text))

\* C11: extract_fields returns, for every document class and text, a record
\* fixed by (doc_type, text) in which every leaf without a match is None, no
\* leaf is the empty string or a stand-in, and a party without a match has an
\* explicit None name like any other unknown field, not a missing key.
C11_UnknownUniform ==
    op = "extract_fields" =>
        /\ ret = extract_fields(args.doc_type, args.text)
        /\ LeavesNullOrFound(ret, args.text)
        /\ PartiesNamedOrNull(ret, args.text)

\* what extract_fields does keep: the leaves are None or found text, and a
\* party is a dict that is empty or holds a non-empty name
C11_LeavesUniformPartiesEmptyDict ==
    op = "extract_fields" =>
        /\ ret = extract_fields(args.doc_type, args.text)
        /\ LeavesNullOrFound(ret, args.text)
        /\ LET parties == OrEmpty(Get(ret, "parties"))
           IN  \A who \in DOMAIN parties :
                   /\ parties[who] # None
                   /\ \/ parties[who][1] = EmptyDict
                      \/ /\ DOMAIN parties[who][1] = {"name"}
                         /\ Truthy(parties[who][1]["name"])
                         /\ OccursIn(parties[who][1]["name"][1], args.text)

\* the characters of s that float() can read: digits, dot and signs
PlainNumber(s) == IF s = None THEN << >> ELSE Keep(s[1], Digits \cup {".", "+", "-"})

\* the digits of s
DigitsOf(s) == IF s = None THEN << >> ELSE Keep(s[1], Digits)

\* s without its commas
WithoutCommas(s) == IF s = None THEN None ELSE Some(SelectSeq(s[1], LAMBDA c : c # ","))

\* C12: _to_float drops every character but digits, comma, dot and sign, then
\* the commas, and parses the rest ('5,000.00' is 5000.0, '1,200' is 1200.0);
\* _to_int keeps the digits ('1,000 Pieces' is 1000); both give None for None,
\* empty and digit-free input, and an unparseable rest gives None, not an error.
C12_NumericNormalizers ==
    /\ op = "_to_float" =>
          /\ ret = (IF FloatSyntax(PlainNumber(args)) THEN Some(FloatOf(PlainNumber(args))) ELSE None)
          /\ ret = _to_float(WithoutCommas(args))
          /\ DigitsOf(args) = << >> => ret = None
          /\ args = Some(<<"5", ",", "0", "0", "0", ".", "0", "0">>) => ret = Some(F(5000))
          /\ args = Some(<<"1", ",", "2", "0", "0">>) => ret = Some(F(1200))
    /\ op = "_to_int" =>
          /\ ret = (IF DigitsOf(args) = << >> THEN None ELSE Some(IntOf(DigitsOf(args))))
          /\ args = Some(<<"1", ",", "0", "0", "0", " ", "P", "i", "e", "c", "e", "s">>) => ret = Some(1000)

\* '5,000.00' normalized to 5000.0
C12_Witness ==
    /\ op = "_to_float"
    /\ args = Some(<<"5", ",", "0", "0", "0", ".", "0", "0">>)
    /\ ret = Some(F(5000))

\* the eleven three-letter trade terms of Incoterms 2020
StandardIncoterms ==
    { <<"E", "X", "W">>,
      <<"F", "C", "A">>,
      <<"C", "P", "T">>,
      <<"C", "I", "P">>,
      <<"D", "A", "P">>,
      <<"D", "P", "U">>,
      <<"D", "D", "P">>,
      <<"F", "A", "S">>,
      <<"F", "O", "B">>,
      <<"C", "F", "R">>,
      <<"C", "I", "F">> }

\* C13: the invoice incoterm is None or one of the eleven standard codes, it
\* is None iff none of the eleven occurs in the text as a standalone word, and
\* each of the eleven alone as the text is returned as the incoterm.
C13_IncotermClosedSet ==
    (op = "extract_fields" /\ args.doc_type = "invoice") =>
        LET incoterm == Field(ret, "commercial_terms", "incoterm")
        IN  /\ incoterm = None \/ incoterm[1] \in StandardIncoterms
            /\ incoterm = None <=>
                  ~\E code \in StandardIncoterms : Search(CodeWord(code), args.text).ok
            /\ \A code \in StandardIncoterms : args.text = code => incoterm = Some(code)

\* the level gates of compute_readiness
LevelOf(score, critical_issues) ==
    IF critical_issues >= 2 THEN "low"
    ELSE IF critical_issues = 1 THEN (IF score >= 70 THEN "medium" ELSE "low")
    ELSE IF score >= 85 THEN "high"
    ELSE IF score >= 65 THEN "medium"
    ELSE "low"

\* no debug record of the report carries a confidence_overall value
NoConfidenceSupplied(report) ==
    LET debug == OrEmpty(Get(report, "debug"))
    IN  \A d \in DOMAIN debug : Get(debug[d], "confidence_overall") = None

\* C14: the score of compute_readiness is 100 * avg_confidence minus
\* min(30, 4 * missing_fields) minus 15 * critical_issues, clamped to 0..100;
\* the level follows the gates (2 or more critical: low; 1: medium from 70,
\* else low; 0: high from 85, medium from 65, else low), so high needs zero
\* critical issues; avg_confidence is 0 when no confidence is supplied.
C14_ReadinessScoreAndLevel ==
    op = "compute_readiness" =>
        LET raw == ret.avg_extraction_confidence - Min2(30, 4 * ret.missing_fields)
                       - 15 * ret.critical_issues
        IN  /\ ret.score = Max2(0, Min2(100, raw))
            /\ ret.critical_issues = CountSeverity(args.issues, "critical")
            /\ ret.level = LevelOf(ret.score, ret.critical_issues)
            /\ ret.level = "high" => ret.critical_issues = 0
            /\ NoConfidenceSupplied(args.report) => ret.avg_extraction_confidence = 0

\* what compute_readiness does keep: the score is at most one below the
\* formula, and the level follows the gates on the score returned
C14_ReadinessWithinOne ==
    op = "compute_readiness" =>
        LET raw == ret.avg_extraction_confidence - Min2(30, 4 * ret.missing_fields)
                       - 15 * ret.critical_issues
        IN  /\ ret.score \in {Max2(0, Min2(100, raw)), Max2(0, Min2(100, raw - 1))}
            /\ ret.critical_issues = CountSeverity(args.issues, "critical")
            /\ ret.level = LevelOf(ret.score, ret.critical_issues)
            /\ ret.level = "high" => ret.critical_issues = 0
            /\ NoConfidenceSupplied(args.report) => ret.avg_extraction_confidence = 0

\* the normalized text of the native extractor for a document
NativeText(file_bytes) == _normalize_text(extract_pdf_text(file_bytes))

\* the OCR attempt is made: short native text and a backend
OcrAttempted(file_bytes, ocr_available) ==
    Len(NativeText(file_bytes)) < OcrThreshold /\ ocr_available

\* the OCR attempt raises: convert_from_bytes or image_to_string of one of
\* the first pages does
OcrRaises(file_bytes) ==
    \/ file_bytes.ocr.raises
    \/ \E k \in 1..Min2(OcrMaxPages, Len(file_bytes.ocr.pages)) : file_bytes.ocr.pages[k].raises

\* C16: get_document_text attempts OCR only when the normalized native text is
\* shorter than 350 characters and the OCR backend is available; it returns the
\* OCR text with method 'ocr' iff OCR was attempted, completed without exception
\* and its normalized text is strictly longer than the native text; in every
\* other case it returns the native text unchanged with method 'pdf_text', or
\* ('', 'empty') when the native text is empty.
C16_OcrFallbackGate ==
    op = "get_document_text" =>
        LET text == NativeText(args)
            taken == /\ OcrAttempted(args, OCR_AVAILABLE)
                     /\ ~OcrRaises(args)
                     /\ Len(_normalize_text(ocr_pdf(args, TRUE).val)) > Len(text)
        IN  /\ ret.val.method = "ocr" <=> taken
            /\ taken => ret.val.text = _normalize_text(ocr_pdf(args, TRUE).val)
            /\ ~taken /\ text # << >> => ret.val = [text |-> text, method |-> "pdf_text"]
            /\ ~taken /\ text = << >> => ret.val = [text |-> << >>, method |-> "empty"]

\* a native text of exactly 350 characters is kept although the backend is
\* available and reads a longer text
C16_Witness ==
    /\ op = "get_document_text"
    /\ OCR_AVAILABLE
    /\ Len(NativeText(args)) = OcrThreshold
    /\ ~OcrRaises(args)
    /\ Len(_normalize_text(ocr_pdf(args, TRUE).val)) > OcrThreshold
    /\ ret.val = [text |-> NativeText(args), method |-> "pdf_text"]

\* the codes of a report's issues
ReportCodes(report) == {report.issues[k].code : k \in 1..Len(report.issues)}

\* C17: for every three byte inputs, the report built by analyze_documents
\* contains both COO_MISSING and NO_ITEMS_EXTRACTED; consequently risk_score is
\* one of 45, 75 or 100, risk_band is never 'low', HS_ALL_MISSING_OR_INVALID
\* never appears, and risk_score = score_issues(issues) and
\* risk_band = risk_band(risk_score).
C17_ReportAlwaysFlagsCooAndItems ==
    op = "analyze_documents" =>
        /\ {"COO_MISSING", "NO_ITEMS_EXTRACTED"} \subseteq ReportCodes(ret)
        /\ "HS_ALL_MISSING_OR_INVALID" \notin ReportCodes(ret)
        /\ ret.risk_score \in {45, 75, 100}
        /\ ret.risk_band # "low"
        /\ ret.risk_score = score_issues(ret.issues)
        /\ ret.risk_band = risk_band(ret.risk_score)
        /\ ~Truthy(Field(ret.extracted_summary.invoice, "commercial_terms", "country_of_origin"))
        /\ ~Truthy(Field(ret.extracted_summary.invoice, "commercial_terms", "coo_mention"))
        /\ ~Truthy(Field(ret.extracted_summary.invoice, "cargo", "items"))

\* a complete, consistent set of documents still gets the two issues and 45
C17_Witness ==
    /\ op = "analyze_documents"
    /\ args.invoice = DigitalPdf(SampleTexts.invoice_full)
    /\ args.packing_list = DigitalPdf(SampleTexts.packing_full)
    /\ [k \in 1..Len(ret.issues) |-> ret.issues[k].code] = <<"COO_MISSING", "NO_ITEMS_EXTRACTED">>
    /\ ret.risk_score = 45
    /\ ret.risk_band = "medium"

\* C18: in every report built by analyze_documents the readiness block has
\* score 0 and level 'low': the three debug records never carry a
\* confidence_overall value, so the average extraction confidence is 0, and at
\* least one critical issue (COO_MISSING) is always counted.
C18_ReadinessAlwaysZeroLow ==
    op = "analyze_documents" =>
        /\ ret.readiness.score = 0
        /\ ret.readiness.level = "low"
        /\ ret.readiness.avg_extraction_confidence = 0
        /\ ret.readiness.critical_issues >= 1
        /\ \A d \in DOMAIN ret.debug : "confidence_overall" \notin DOMAIN ret.debug[d]

\* three readable digital documents that agree on quantity and weight: a
\* single critical issue, and still score 0
C18_Witness ==
    /\ op = "analyze_documents"
    /\ args.invoice = DigitalPdf(SampleTexts.invoice_full)
    /\ args.packing_list = DigitalPdf(SampleTexts.packing_full)
    /\ args.bill_of_lading = DigitalPdf(SampleTexts.bl_weight_1000)
    /\ ret.readiness.critical_issues = 1
    /\ ret.readiness.score = 0
    /\ ret.readiness.level = "low"

\* the client holds the JSON body of its POST /v1/analyze
HoldsAnalyzeBody(c) ==
    /\ clients[c].pc = "idle"
    /\ clients[c].response # None
    /\ clients[c].response[1].kind = "json"

\* the client holds the page of the GET /report that followed its redirect
HoldsReportAfterRedirect(c) ==
    /\ clients[c].pc = "idle"
    /\ clients[c].redirect = "followed"
    /\ clients[c].response # None

\* C15: each request's data is request-scoped under any interleaving of
\* concurrent requests: the body returned by POST /v1/analyze is the report
\* computed from that request's own three documents, and the report a client is
\* shown at GET /report after its POST /v1/analyze-and-view redirect is the
\* report computed from its own documents, never that of another client.
C15_RequestScoped ==
    \A c \in Clients :
        /\ HoldsAnalyzeBody(c) => clients[c].response[1] = JSONResponse(RiskReport(OwnReport(c)))
        /\ HoldsReportAfterRedirect(c) => clients[c].response[1] = html_response(OwnReport(c))

\* the half of C15 that holds: the JSON body is the request's own report
C15_AnalyzeBodyIsOwn ==
    \A c \in Clients :
        HoldsAnalyzeBody(c) => clients[c].response[1] = JSONResponse(RiskReport(OwnReport(c)))

\* in this step the analysis request of client c completes and stores
Stores(c) == clients[c].pc \in {"analyze", "analyze_and_view"} /\ clients'[c].pc = "idle"

\* C19: the process-wide LAST_REPORT cache is empty from start-up until the
\* first analysis request completes, and during that time GET /report returns
\* the 'No report yet' placeholder with status 200; after any sequence of
\* POST /v1/analyze and POST /v1/analyze-and-view requests it holds exactly the
\* result of the request that stored last, it is never reset to empty, and
\* GET /report, GET / and GET /analyze leave it unchanged.
C19_LastReportCache ==
    /\ LAST_REPORT = None
    /\ [][ /\ (\A c \in Clients : ~Stores(c)) => LAST_REPORT' = LAST_REPORT
           /\ \A c \in Clients : Stores(c) => LAST_REPORT' = Some(OwnReport(c))
           /\ LAST_REPORT # None => LAST_REPORT' # None
           /\ \A c \in Clients :
                 GetReport(c) /\ LAST_REPORT = None =>
                     /\ clients'[c].response = Some(NoReportYet)
                     /\ clients'[c].response[1].status_code = 200
           /\ \A c \in Clients :
                 GetReport(c) \/ report_render(c) \/ home(c) \/ analyze_ui(c) =>
                     LAST_REPORT' = LAST_REPORT ]_vars

\* both clients have had an analysis answered, on different uploads, and the
\* cache holds the report of one of them and not of the other
C19_Witness ==
    \E c, d \in Clients :
        /\ c # d
        /\ HoldsAnalyzeBody(c)
        /\ clients[d].pc = "idle"
        /\ clients[d].redirect = "received"
        /\ clients[c].upload # clients[d].upload
        /\ LAST_REPORT = Some(OwnReport(d))
        /\ LAST_REPORT # Some(OwnReport(c))

====
